---- MODULE Spec2Model ----
(***************************************************************************)
(* Frame loop of the PSX lander model viewer: double-buffered DMA chains,  *)
(* depth-bucketed ordering table, per-face culling, vsync-gated submission *)
(* to the GPU.  Two builds of main() are modelled: the basic viewer        *)
(* (src/main.c) and the full viewer with HUD, gradient background, stars   *)
(* and background shapes (src/src/main.c).                                 *)
(***************************************************************************)
EXTENDS Integers, Sequences, FiniteSets, TLC

(* ------------------------------ bounds -------------------------------- *)
\* number of buckets of an ordering table (gpu.h, scaled down)
ORDERING_TABLE_SIZE == 6
\* number of faces of the model (MODEL_FACES / model.numFaces, scaled down)
MODEL_FACES == 2
\* number of stars (NUM_STARS, scaled down)
NUM_STARS == 1
\* triangles of all background shapes together (NUM_SHAPES shapes of 6 to
\* 12 triangles each, scaled down)
NumBgTris == 1
\* glyphs of the HUD text of a frame
HudChars == 2

\* countdowns of the bounded waits, scaled down: waitForAcknowledge(500),
\* exchangeByteWithTimeout(.., 20000) and its RX wait of 10000, the receive
\* buffer flush of 2000, the two waits of uploadVAG (10000, 100000) and
\* waitForResponse (100000)
AckTimeout == 30
TxTimeout == 3
RxTimeout == 2
ClearTimeout == 2
SpuModeTimeout == 2
SpuDmaTimeout == 3
ResponseTimeout == 3

\* longest model buffer looked at, in bytes
MaxModelBytes == 9

(* ------------------------ program constants --------------------------- *)
SCREEN_WIDTH == 320
\* words of a chain's arena (CHAIN_BUFFER_SIZE of gpu.h, scaled down): room
\* for the auxiliary packets of a frame and the packet of one face
CHAIN_BUFFER_SIZE == 38
\* bytes of the model header: if (!model || !data || size < 8)
HeaderSize == 8
\* for (; timeout > 0; timeout -= 10)
AckStep == 10

Builds == {"basic", "full"}

\* values MAC0 may hold after NCLIP: back-facing, degenerate, front-facing
NclipValues == {-1, 0, 1}
\* values read from OTZ after AVSZ3: the nearest bucket and one value on
\* each side of the table
OTZValues == {-1, 0, ORDERING_TABLE_SIZE}
\* values read from OTZ for a model at the far end of the table: the
\* farthest bucket and the value behind it
FarOTZValues == {ORDERING_TABLE_SIZE - 1, ORDERING_TABLE_SIZE}

Buckets == 0 .. (ORDERING_TABLE_SIZE - 1)

(* ----------------------------- addresses ------------------------------ *)
\* A link word holds the address of an ordering-table entry, of a packet in
\* a chain's arena, or the 0xFFFFFF terminator.
Terminator == [kind |-> "end", chain |-> 0, at |-> 0]
OTAddr(c, i) == [kind |-> "ot", chain |-> c, at |-> i]
PktAddr(c, off) == [kind |-> "pkt", chain |-> c, at |-> off]

VARIABLES
    build,             \* which main() runs
    pc,                \* position of the CPU in the frame loop
    usingSecondFrame,  \* parity flag of the double buffer
    chain,             \* index into dmaChains of the chain being built (-1: none yet)
    bufferX,           \* VRAM x of the frame buffer of this iteration
    dmaChains,         \* the two DMA chains: ordering table, cursor, arena
    i,                 \* loop counter of the face / star / shape loops
    nclip, zIndex,     \* locals of the face loop body
    dispX,             \* frame buffer shown by the display (GP1 fbOffset)
    sub,               \* the GPU/DMA linked-list transfer
    drawTarget,        \* per chain: bufferX written into its drawing-area packet
    frames,            \* iterations started so far, saturating at 2
    log,               \* synchronisation calls made in the current iteration
    cdBusy,            \* CDROM_HSTS.BUSYSTS: the CD-ROM controller is busy
    \* a hardware-readiness poll
    poll,              \* the wait the CPU is in ("idle": in none)
    timeout,           \* the countdown of that wait
    hwReady,           \* the hardware flag the wait polls for
    spins,             \* times the wait has gone round its loop
    ret,               \* how the last wait ended
    \* start-up of main and the model loader
    startPc,           \* position in main before the frame loop
    modelArg,          \* loadModel's model pointer is not null
    modelData,         \* loadModel's data: the bytes, or Null
    model,             \* the Model structure
    loaded,            \* what loadModel returned ("none": not called yet)
    audio,             \* audio subsystems initialised so far
    reported,          \* main has printed "Failed to load model!"
    built,             \* frames built and submitted, saturating at 2
    \* the controller exchange
    padPc,             \* position in pollController
    pad,               \* the ControllerState of the frame
    response,          \* the response buffer of the exchange
    padI,              \* index of the byte being read
    responseLen,       \* bytes the controller announced
    missed,            \* an acknowledge or a byte of this poll timed out
    dtr,               \* SIO_CTRL_DTR is asserted
    \* the geometry engine
    gtePc,             \* position in the GTE set-up of a frame
    RT,                \* rotation matrix registers
    TR,                \* translation vector registers
    start,             \* RT before the first rotateCurrentMatrix call
    before,            \* RT before the latest rotateCurrentMatrix call
    calls,             \* arguments of the rotateCurrentMatrix calls made
    rotation,          \* yaw, pitch, roll of the frame
    shape,             \* index of the background shape being set up
    \* a call of isin
    trigPc,            \* "call": about to call isin, "done": it returned
    arg,               \* the argument
    sine,              \* isin(arg)
    shifted,           \* isin(arg + one full turn)
    halfTurned,        \* isin(arg + half a turn)
    negated,           \* isin(-arg)
    \* the face loop run over a cube
    cubePc,            \* "faces": in the loop, "counted": the loop has ended
    half,              \* half the edge of the cube
    face,              \* the loop counter
    passed,            \* faces that were not skipped by the culling test
    \* the X button of the full viewer
    edgePc,            \* position in the input handling of a frame
    padButtons,        \* pad.buttons of this frame's poll
    prevButtons,       \* prevButtons
    bgFlash,           \* bgFlash
    spuSoundAddr,      \* SPU address of the uploaded sound, 0: none
    fired,             \* this frame set off the flash
    sampled,           \* this frame called playSample
    wasX,              \* X was down in the poll of the frame before
    held,              \* consecutive polls with X down, saturating
    firedInHold,       \* flashes set off since X went down, saturating at 2
    sincePress,        \* fades since the last flash was set off, saturating
    \* CD-DA playback (cdda.c)
    ntoc,              \* ntoc
    loopMusic,         \* loopMusic
    trackToLoop,       \* trackToLoop
    loopWait,          \* loopWait
    currentTrack,      \* currentTrack
    loc,               \* loc[100]: minute, second, sector of each track
    lastCall,          \* the function of cdda.h that returned last
    lastCmds,          \* the commands that call wrote to the drive, in order
    playArgs,          \* arguments of the playCDDATrack calls made in it
    locIdx,            \* indices at which it read or wrote loc[]
    sawPlaying,        \* what its isCDDAPlaying returned
    stopped,           \* stopCDDA returned and looping was not set since
    misses,            \* updates that saw the drive idle since the last fifth
    \* one background shape of the full viewer
    fieldPc,           \* position in main: initStarfield, updateStarfield, drawing
    bgShape,           \* x, z and moveSpeed of the entry of shapes[]
    zAtReset,          \* the z the latest resetShape gave it
    divZero,           \* a division by a zero z was executed
    skipped            \* the drawing loop skipped the shape for z < 50

frameVars == <<build, pc, usingSecondFrame, chain, bufferX, dmaChains, i, nclip,
               zIndex, dispX, sub, drawTarget, frames, log, cdBusy>>

\* variables of the hardware polls, of start-up and model loading, of the
\* controller exchange and of the geometry engine
pollVars == <<poll, timeout, hwReady, spins, ret>>
loadVars == <<startPc, modelArg, modelData, model, loaded, audio, reported,
              built>>
padVars == <<padPc, pad, response, padI, responseLen, missed, dtr>>
gteVars == <<gtePc, RT, TR, start, before, calls, rotation, shape>>

trigVars == <<trigPc, arg, sine, shifted, halfTurned, negated>>

cubeVars == <<cubePc, half, face, passed>>

edgeVars == <<edgePc, padButtons, prevButtons, bgFlash, spuSoundAddr, fired,
              sampled, wasX, held, firedInHold, sincePress>>

cddaVars == <<ntoc, loopMusic, trackToLoop, loopWait, currentTrack, loc, lastCall,
              lastCmds, playArgs, locIdx, sawPlaying, stopped, misses>>

\* variables of the trigonometry, of the cube run, of the X button and of
\* the CD-DA playback
fieldVars == <<fieldPc, bgShape, zAtReset, divZero, skipped>>

lateVars == <<trigVars, cubeVars, edgeVars, cddaVars, fieldVars>>

\* what the frame loop never touches
aside == <<pollVars, loadVars, padVars, gteVars, lateVars>>

vars == <<frameVars, pollVars, loadVars, padVars, gteVars, lateVars>>

\* a null data pointer, and a buffer of bytes
Null == [null |-> TRUE, bytes |-> <<>>]
Buffer(b) == [null |-> FALSE, bytes |-> b]

\* a Model structure that was never written
UnsetModel ==
    [numVertices |-> -1, numUVs |-> -1, numFaces |-> -1, reserved |-> -1,
     vertices |-> -1, uvs |-> -1, faces |-> -1]

\* GTE registers that were never written
NoVector == <<0, 0, 0>>
NoMatrix == <<NoVector, NoVector, NoVector>>

\* the controller state pollController starts from
Neutral ==
    [buttons |-> 0, leftX |-> 128, leftY |-> 128, rightX |-> 128,
     rightY |-> 128, isAnalog |-> FALSE]

LoadIdle ==
    /\ startPc = "idle" /\ modelArg = FALSE /\ modelData = Null
    /\ model = UnsetModel /\ loaded = "none" /\ audio = {} /\ reported = FALSE
    /\ built = 0

PadIdle ==
    /\ padPc = "idle" /\ pad = Neutral /\ response = <<>> /\ padI = 0
    /\ responseLen = 0 /\ missed = FALSE /\ dtr = FALSE

GteIdle ==
    /\ gtePc = "idle" /\ RT = NoMatrix /\ TR = NoVector /\ start = NoMatrix
    /\ before = NoMatrix /\ calls = <<>> /\ rotation = <<0, 0, 0>> /\ shape = 0

TrigIdle ==
    /\ trigPc = "idle" /\ arg = 0 /\ sine = 0 /\ shifted = 0
    /\ halfTurned = 0 /\ negated = 0

CubeIdle == cubePc = "idle" /\ half = 0 /\ face = 0 /\ passed = 0

EdgeIdle ==
    /\ edgePc = "idle" /\ padButtons = 0 /\ prevButtons = 0 /\ bgFlash = 0
    /\ spuSoundAddr = 0 /\ fired = FALSE /\ sampled = FALSE /\ wasX = FALSE
    /\ held = 0 /\ firedInHold = 0 /\ sincePress = 0

CddaIdle ==
    /\ ntoc = 0 /\ loopMusic = 0 /\ trackToLoop = 0 /\ loopWait = 0
    /\ currentTrack = 0 /\ loc = <<>> /\ lastCall = "idle" /\ lastCmds = <<>>
    /\ playArgs = <<>> /\ locIdx = {} /\ sawPlaying = FALSE /\ stopped = FALSE
    /\ misses = 0

\* a static Shape3D is all zero
NoShape == [x |-> 0, z |-> 0, moveSpeed |-> 0]

FieldIdle ==
    /\ fieldPc = "idle" /\ bgShape = NoShape /\ zAtReset = 0
    /\ divZero = FALSE /\ skipped = FALSE

LateIdle == TrigIdle /\ CubeIdle /\ EdgeIdle /\ CddaIdle /\ FieldIdle

\* no wait in progress
PollIdle ==
    /\ poll = "idle" /\ timeout = 0 /\ hwReady = FALSE /\ spins = 0
    /\ ret = "none"

(* --------------------------- chain memory ----------------------------- *)
\* A packet in the arena: offset and length in words, its link word, and
\* bookkeeping: the bucket it was allocated into and what it draws.  data
\* maps the arena offsets of the packets allocated in the chain's current
\* frame to those packets; every other word of the arena is leftover from
\* earlier frames.
Packet(off, len, link, b, kind) ==
    [off |-> off, len |-> len, link |-> link, bucket |-> b, kind |-> kind]

Overlaps(p, off, len) == p.off < off + len /\ off < p.off + p.len

\* writing a packet over words [off, off + len) destroys what overlapped them
Store(data, off, len, new) ==
    LET kept == {o \in DOMAIN data : ~Overlaps(data[o], off, len)}
    IN  [o \in kept \cup {off} |-> IF o = off THEN new ELSE data[o]]

\* clearOrderingTable: every bucket becomes an empty entry chained to the
\* next nearer bucket; bucket 0 holds the terminator.
clearOrderingTable(c) ==
    [b \in Buckets |-> IF b = 0 THEN Terminator ELSE OTAddr(c, b - 1)]

\* the new packet becomes the bucket's head but is not linked to the old head
allocatePacket_unlinked(ch, c, b, n, kind) ==
    LET off == ch.nextPacket
        new == Packet(off, n, Terminator, b, kind)
    IN  [orderingTable |-> [ch.orderingTable EXCEPT ![b] = PktAddr(c, off)],
         nextPacket    |-> off + n,
         data          |-> Store(ch.data, off, n, new)]

\* allocatePacket(chain, bucket, n): carve n words at the cursor, link the
\* new packet to what the bucket pointed to, make it the bucket's head.
allocatePacket(ch, c, b, n, kind) ==
    LET off == ch.nextPacket
        new == Packet(off, n, ch.orderingTable[b], b, kind)
    IN  [orderingTable |-> [ch.orderingTable EXCEPT ![b] = PktAddr(c, off)],
         nextPacket    |-> off + n,
         data          |-> Store(ch.data, off, n, new)]

Alloc(b, n, kind) ==
    dmaChains' = [dmaChains EXCEPT ![chain] = allocatePacket(@, chain, b, n, kind)]

(* ------------------------- DMA list traversal ------------------------- *)
\* Word the DMA reads at address a: the next-link stored there.
LinkAt(a) ==
    IF a.kind = "ot" THEN dmaChains[a.chain].orderingTable[a.at]
    ELSE dmaChains[a.chain].data[a.at].link

Mapped(a) ==
    \/ a.kind = "ot" /\ a.at \in Buckets
    \/ a.kind = "pkt" /\ a.at \in DOMAIN dmaChains[a.chain].data

\* Follow links from a for at most fuel hops: the packets visited, in
\* order, and how the walk ended.
RECURSIVE Walk(_, _, _)
Walk(a, fuel, seen) ==
    IF a = Terminator THEN [visited |-> seen, result |-> "end"]
    ELSE IF ~Mapped(a) THEN [visited |-> seen, result |-> "leftover"]
    ELSE IF fuel = 0 THEN [visited |-> seen, result |-> "loop"]
    ELSE Walk(LinkAt(a), fuel - 1,
              IF a.kind = "pkt"
              THEN Append(seen, dmaChains[a.chain].data[a.at])
              ELSE seen)

Fuel(c) == ORDERING_TABLE_SIZE + Cardinality(DOMAIN dmaChains[c].data) + 1

\* sendLinkedList is handed &orderingTable[ORDERING_TABLE_SIZE - 1]
StartBucket(c) == OTAddr(c, ORDERING_TABLE_SIZE - 1)

ChainWalk(c) == Walk(StartBucket(c), Fuel(c), <<>>)

(* ------------------------------- Init --------------------------------- *)
\* dmaChains[2] is an uninitialised local of main: its ordering tables and
\* cursors hold whatever the stack held.
Garbage ==
    { [orderingTable |-> [b \in Buckets |-> t], nextPacket |-> n, data |-> <<>>] :
        t \in {Terminator, PktAddr(0, 0)}, n \in {0, 5} }

Init ==
    /\ build \in Builds
    /\ pc = "select"
    /\ usingSecondFrame = FALSE
    /\ chain = -1
    /\ bufferX = 0
    /\ \E g \in Garbage : dmaChains = [c \in {0, 1} |-> g]
    /\ i = 0
    /\ nclip = 0
    /\ zIndex = 0
    /\ dispX = 0
    /\ sub = [busy |-> FALSE, madr |-> Terminator]
    /\ drawTarget = [c \in {0, 1} |-> -1]
    /\ frames = 0
    /\ log = <<>>
    /\ cdBusy \in (IF build = "full" THEN BOOLEAN ELSE {FALSE})
    /\ LateIdle /\ PollIdle /\ LoadIdle /\ PadIdle /\ GteIdle

(* ------------------------- the frame loop ----------------------------- *)
\* DMAChain *chain = &dmaChains[usingSecondFrame];
ChainIndex(u) == IF u THEN 1 ELSE 0
\* the parity flag is left as it was
ToggleFrame_stuck(u) == u
\* usingSecondFrame = !usingSecondFrame;
ToggleFrame(u) == ~u
\* both iterations use the first frame buffer
BufferXOf_first(u) == 0 * SCREEN_WIDTH
\* int bufferX = usingSecondFrame ? SCREEN_WIDTH : 0;
BufferXOf(u) == IF u THEN SCREEN_WIDTH ELSE 0

\* the packets a chain holds when it is selected again are leftover
Age(ch) == [ch EXCEPT !.data = <<>>]

\* Top of the loop: select the chain, flip the parity, show the buffer.
BeginFrame ==
    /\ pc = "select"
    /\ bufferX' = BufferXOf(usingSecondFrame)
    /\ chain' = ChainIndex(usingSecondFrame)
    /\ usingSecondFrame' = ToggleFrame(usingSecondFrame)
    /\ dispX' = bufferX'
    /\ dmaChains' = [dmaChains EXCEPT ![chain'] = Age(@)]
    /\ frames' = IF frames < 2 THEN frames + 1 ELSE frames
    /\ log' = <<>>
    /\ pc' = "clear"
    /\ UNCHANGED <<aside, cdBusy, build, i, nclip, zIndex, sub, drawTarget>>

\* the ordering table is not cleared
ClearTable_skip ==
    /\ pc = "clear"
    /\ pc' = "reset"
    /\ UNCHANGED <<aside, cdBusy, build, usingSecondFrame, chain, bufferX, dmaChains, i, nclip,
                   zIndex, dispX, sub, drawTarget, frames, log>>

\* clearOrderingTable(chain->orderingTable, ORDERING_TABLE_SIZE);
ClearTable ==
    /\ pc = "clear"
    /\ dmaChains' = [dmaChains EXCEPT ![chain].orderingTable = clearOrderingTable(chain)]
    /\ pc' = "reset"
    /\ UNCHANGED <<aside, cdBusy, build, usingSecondFrame, chain, bufferX, i, nclip, zIndex,
                   dispX, sub, drawTarget, frames, log>>

\* the cursor is not moved back to the arena base
ResetArena_skip ==
    /\ pc = "reset"
    /\ i' = 0
    /\ pc' = IF build = "full" THEN "cdda" ELSE "gte"
    /\ UNCHANGED <<aside, cdBusy, build, usingSecondFrame, chain, bufferX, dmaChains, nclip,
                   zIndex, dispX, sub, drawTarget, frames, log>>

\* chain->nextPacket = chain->data;
ResetArena ==
    /\ pc = "reset"
    /\ dmaChains' = [dmaChains EXCEPT ![chain].nextPacket = 0]
    /\ i' = 0
    /\ pc' = IF build = "full" THEN "cdda" ELSE "gte"
    /\ UNCHANGED <<aside, cdBusy, build, usingSecondFrame, chain, bufferX, nclip, zIndex,
                   dispX, sub, drawTarget, frames, log>>

(* ---------------------- CD-DA upkeep (full build) ---------------------- *)
\* waitCDReady: while (CDROM_HSTS & CDROM_HSTS_BUSYSTS) spin, no timeout
CDReady == ~cdBusy

\* updateCDDA, first half: isCDDAPlaying() sends CdlNop once the controller
\* is ready; loopMusic is 1 from initCDDA on.  When the disc is not playing
\* and loopWait has reached 5 the track is restarted.
CdNop ==
    /\ pc = "cdda"
    /\ CDReady
    /\ cdBusy' = TRUE
    /\ \E restart \in BOOLEAN : pc' = IF restart THEN "cdsetloc" ELSE "gte"
    /\ UNCHANGED <<aside, build, usingSecondFrame, chain, bufferX, dmaChains, i,
                   nclip, zIndex, dispX, sub, drawTarget, frames, log>>

\* playCDDATrack: CdControl(CdlSetloc, ...) then CdControl0(CdlPlay), each
\* behind waitCDReady
CdSetloc ==
    /\ pc = "cdsetloc"
    /\ CDReady
    /\ cdBusy' = TRUE
    /\ pc' = "cdplay"
    /\ UNCHANGED <<aside, build, usingSecondFrame, chain, bufferX, dmaChains, i,
                   nclip, zIndex, dispX, sub, drawTarget, frames, log>>

CdPlay ==
    /\ pc = "cdplay"
    /\ CDReady
    /\ cdBusy' = TRUE
    /\ pc' = "gte"
    /\ UNCHANGED <<aside, build, usingSecondFrame, chain, bufferX, dmaChains, i,
                   nclip, zIndex, dispX, sub, drawTarget, frames, log>>

\* hardware: the CD-ROM controller has taken the command
CdIdle ==
    /\ cdBusy
    /\ cdBusy' = FALSE
    /\ UNCHANGED <<aside, build, pc, usingSecondFrame, chain, bufferX, dmaChains,
                   i, nclip, zIndex, dispX, sub, drawTarget, frames, log>>

(* ----------------------------- face loop ------------------------------ *)
\* Face i: RTPT, NCLIP, read MAC0; AVSZ3 and OTZ only for a front face.
TransformFaceAt(depths) ==
    /\ pc = "gte"
    /\ i < MODEL_FACES
    /\ \E n \in NclipValues :
        /\ nclip' = n
        /\ IF n <= 0 THEN zIndex' = zIndex
           ELSE \E z \in depths : zIndex' = z
    /\ pc' = "emit"
    /\ UNCHANGED <<aside, cdBusy, build, usingSecondFrame, chain, bufferX, dmaChains, i,
                   dispX, sub, drawTarget, frames, log>>

TransformFace == TransformFaceAt(OTZValues)

\* the same step for a model at the far end of the table
TransformFaceFar == TransformFaceAt(FarOTZValues)

\* a degenerate face (MAC0 = 0) is let through
FacePasses_degenerate(n, z) == ~(n < 0) /\ ~((z < 0) \/ (z >= ORDERING_TABLE_SIZE))
\* if (nclip <= 0) continue;
\* if ((zIndex < 0) || (zIndex >= ORDERING_TABLE_SIZE)) continue;
FacePasses(n, z) == ~(n <= 0) /\ ~((z < 0) \/ (z >= ORDERING_TABLE_SIZE))

\* Rest of the loop body: cull, range check, 7-word textured triangle.
EmitFace ==
    /\ pc = "emit"
    /\ IF FacePasses(nclip, zIndex)
       THEN Alloc(zIndex, 7, "face")
       ELSE UNCHANGED dmaChains
    /\ i' = i + 1
    /\ nclip' = 0
    /\ zIndex' = 0
    /\ pc' = "gte"
    /\ UNCHANGED <<aside, cdBusy, build, usingSecondFrame, chain, bufferX, dispX, sub,
                   drawTarget, frames, log>>

\* The face loop is over: on to the auxiliary packets.
EndFaces ==
    /\ pc = "gte"
    /\ ~(i < MODEL_FACES)
    /\ pc' = IF build = "basic" THEN "bgfill" ELSE "hud"
    /\ i' = 0
    /\ UNCHANGED <<aside, cdBusy, build, usingSecondFrame, chain, bufferX, dmaChains, nclip,
                   zIndex, dispX, sub, drawTarget, frames, log>>

\* basic build: VRAM fill of the back buffer, 3 words, farthest bucket
BgFill ==
    /\ pc = "bgfill"
    /\ Alloc(ORDERING_TABLE_SIZE - 1, 3, "bgfill")
    /\ pc' = "drawarea"
    /\ UNCHANGED <<aside, cdBusy, build, usingSecondFrame, chain, bufferX, i, nclip, zIndex,
                   dispX, sub, drawTarget, frames, log>>

\* the drawing-area packet is put into the nearest bucket
DrawArea_near ==
    /\ pc = "drawarea"
    /\ Alloc(0, 4, "drawarea")
    /\ drawTarget' = [drawTarget EXCEPT ![chain] = bufferX]
    /\ pc' = "waitgp0"
    /\ UNCHANGED <<aside, cdBusy, build, usingSecondFrame, chain, bufferX, i, nclip, zIndex,
                   dispX, sub, frames, log>>

\* texpage, drawing area and origin of the back buffer, 4 words
DrawArea ==
    /\ pc = "drawarea"
    /\ Alloc(ORDERING_TABLE_SIZE - 1, 4, "drawarea")
    /\ drawTarget' = [drawTarget EXCEPT ![chain] = bufferX]
    /\ pc' = "waitgp0"
    /\ UNCHANGED <<aside, cdBusy, build, usingSecondFrame, chain, bufferX, i, nclip, zIndex,
                   dispX, sub, frames, log>>

(* ------------------------- full build only ---------------------------- *)
\* words of one glyph packet of printString
GlyphWords == 4

\* printString(chain, &font, x, y, text): one packet per glyph, all in the
\* farthest bucket
RECURSIVE printString(_, _, _)
printString(ch, c, n) ==
    IF n = 0 THEN ch
    ELSE printString(allocatePacket(ch, c, ORDERING_TABLE_SIZE - 1, GlyphWords, "text"),
                     c, n - 1)

\* Controller HUD text
PrintHud ==
    /\ pc = "hud"
    /\ dmaChains' = [dmaChains EXCEPT ![chain] = printString(@, chain, HudChars)]
    /\ pc' = "grad1"
    /\ UNCHANGED <<aside, cdBusy, build, usingSecondFrame, chain, bufferX, i, nclip, zIndex,
                   dispX, sub, drawTarget, frames, log>>

\* the gradient triangles are put into the nearest bucket
Gradient_front ==
    /\ pc \in {"grad1", "grad2"}
    /\ Alloc(0, 6, "grad")
    /\ pc' = IF pc = "grad1" THEN "grad2" ELSE "stars"
    /\ i' = 0
    /\ UNCHANGED <<aside, cdBusy, build, usingSecondFrame, chain, bufferX, nclip, zIndex,
                   dispX, sub, drawTarget, frames, log>>

\* gradient background: two Gouraud triangles of 6 words each
Gradient ==
    /\ pc \in {"grad1", "grad2"}
    /\ Alloc(ORDERING_TABLE_SIZE - 1, 6, "grad")
    /\ pc' = IF pc = "grad1" THEN "grad2" ELSE "stars"
    /\ i' = 0
    /\ UNCHANGED <<aside, cdBusy, build, usingSecondFrame, chain, bufferX, nclip, zIndex,
                   dispX, sub, drawTarget, frames, log>>

\* star i: skipped when off screen, else a 3-word rectangle
DrawStar ==
    /\ pc = "stars"
    /\ i < NUM_STARS
    /\ \E onScreen \in BOOLEAN :
        IF onScreen THEN Alloc(ORDERING_TABLE_SIZE - 2, 3, "star")
        ELSE UNCHANGED dmaChains
    /\ i' = i + 1
    /\ UNCHANGED <<aside, cdBusy, build, pc, usingSecondFrame, chain, bufferX, nclip, zIndex,
                   dispX, sub, drawTarget, frames, log>>

EndStars ==
    /\ pc = "stars"
    /\ ~(i < NUM_STARS)
    /\ pc' = "shapes"
    /\ i' = 0
    /\ UNCHANGED <<aside, cdBusy, build, usingSecondFrame, chain, bufferX, dmaChains, nclip,
                   zIndex, dispX, sub, drawTarget, frames, log>>

\* int minIdx = ORDERING_TABLE_SIZE / 2; int maxIdx = ORDERING_TABLE_SIZE - 3;
\* the clamp with the nearest bucket as its lower limit
ClampBg_minZero(zIdx) ==
    LET minIdx == 0
        maxIdx == ORDERING_TABLE_SIZE - 3
        z1 == IF zIdx < minIdx THEN minIdx ELSE zIdx
    IN  IF z1 > maxIdx THEN maxIdx ELSE z1

\* if (zIdx < minIdx) zIdx = minIdx; if (zIdx > maxIdx) zIdx = maxIdx;
ClampBg(zIdx) ==
    LET minIdx == ORDERING_TABLE_SIZE \div 2
        maxIdx == ORDERING_TABLE_SIZE - 3
        z1 == IF zIdx < minIdx THEN minIdx ELSE zIdx
    IN  IF z1 > maxIdx THEN maxIdx ELSE z1

drawBgTriangle(ch, c, zIdx) == allocatePacket(ch, c, ClampBg(zIdx), 4, "shape")

\* one triangle of a background shape: drawn when MAC0 > 0
DrawShapeTriangle ==
    /\ pc = "shapes"
    /\ i < NumBgTris
    /\ \E n \in NclipValues :
        IF n > 0
        THEN \E z \in OTZValues :
                dmaChains' = [dmaChains EXCEPT ![chain] = drawBgTriangle(@, chain, z)]
        ELSE UNCHANGED dmaChains
    /\ i' = i + 1
    /\ UNCHANGED <<aside, cdBusy, build, pc, usingSecondFrame, chain, bufferX, nclip, zIndex,
                   dispX, sub, drawTarget, frames, log>>

EndShapes ==
    /\ pc = "shapes"
    /\ ~(i < NumBgTris)
    /\ pc' = "drawarea"
    /\ i' = 0
    /\ UNCHANGED <<aside, cdBusy, build, usingSecondFrame, chain, bufferX, dmaChains, nclip,
                   zIndex, dispX, sub, drawTarget, frames, log>>

(* --------------------------- submission ------------------------------- *)
\* waitForGP0Ready returns once the GPU has finished the previous list
GP0Ready == ~sub.busy

\* sendLinkedList(data): start the linked-list transfer at data
sendLinkedList(a) == [busy |-> TRUE, madr |-> a]

\* the call is missing: the loop goes straight to the vsync wait
WaitForGP0Ready_missing ==
    /\ pc = "waitgp0"
    /\ pc' = "waitvsync"
    /\ UNCHANGED <<aside, cdBusy, build, usingSecondFrame, chain, bufferX, dmaChains, i,
                   nclip, zIndex, dispX, sub, drawTarget, frames, log>>

WaitForGP0Ready ==
    /\ pc = "waitgp0"
    /\ GP0Ready
    /\ log' = Append(log, "gp0")
    /\ pc' = "waitvsync"
    /\ UNCHANGED <<aside, cdBusy, build, usingSecondFrame, chain, bufferX, dmaChains, i,
                   nclip, zIndex, dispX, sub, drawTarget, frames>>

\* returns at the next vertical retrace
WaitForVSync ==
    /\ pc = "waitvsync"
    /\ log' = Append(log, "vsync")
    /\ pc' = "send"
    /\ UNCHANGED <<aside, cdBusy, build, usingSecondFrame, chain, bufferX, dmaChains, i,
                   nclip, zIndex, dispX, sub, drawTarget, frames>>

\* the list is sent from the nearest bucket instead of the farthest
Submit_nearest ==
    /\ pc = "send"
    /\ sub' = sendLinkedList(OTAddr(chain, 0))
    /\ log' = Append(log, "send")
    /\ pc' = "select"
    /\ UNCHANGED <<aside, cdBusy, build, usingSecondFrame, chain, bufferX, dmaChains, i,
                   nclip, zIndex, dispX, drawTarget, frames>>

\* sendLinkedList(&(chain->orderingTable)[ORDERING_TABLE_SIZE - 1]);
Submit ==
    /\ pc = "send"
    /\ sub' = sendLinkedList(StartBucket(chain))
    /\ log' = Append(log, "send")
    /\ pc' = "select"
    /\ UNCHANGED <<aside, cdBusy, build, usingSecondFrame, chain, bufferX, dmaChains, i,
                   nclip, zIndex, dispX, drawTarget, frames>>

\* hardware: the GPU has consumed the whole list
TransferDone ==
    /\ sub.busy
    /\ sub' = [sub EXCEPT !.busy = FALSE]
    /\ UNCHANGED <<aside, cdBusy, build, pc, usingSecondFrame, chain, bufferX, dmaChains, i,
                   nclip, zIndex, dispX, drawTarget, frames, log>>

\* steps of the CPU
CpuStep ==
    \/ BeginFrame \/ ClearTable \/ ResetArena
    \/ CdNop \/ CdSetloc \/ CdPlay
    \/ TransformFace \/ EmitFace \/ EndFaces
    \/ BgFill \/ DrawArea
    \/ PrintHud \/ Gradient \/ DrawStar \/ EndStars
    \/ DrawShapeTriangle \/ EndShapes
    \/ WaitForGP0Ready \/ WaitForVSync \/ Submit

Next ==
    \/ BeginFrame \/ ClearTable \/ ResetArena
    \/ CdNop \/ CdSetloc \/ CdPlay \/ CdIdle
    \/ TransformFace \/ EmitFace \/ EndFaces
    \/ BgFill \/ DrawArea
    \/ PrintHud \/ Gradient \/ DrawStar \/ EndStars
    \/ DrawShapeTriangle \/ EndShapes
    \/ WaitForGP0Ready \/ WaitForVSync \/ Submit
    \/ TransferDone

Spec == Init /\ [][Next]_vars

\* the frame loop with the model at the far end of the ordering table
FarNext ==
    \/ BeginFrame \/ ClearTable \/ ResetArena
    \/ CdNop \/ CdSetloc \/ CdPlay \/ CdIdle
    \/ TransformFaceFar \/ EmitFace \/ EndFaces
    \/ BgFill \/ DrawArea
    \/ PrintHud \/ Gradient \/ DrawStar \/ EndStars
    \/ DrawShapeTriangle \/ EndShapes
    \/ WaitForGP0Ready \/ WaitForVSync \/ Submit
    \/ TransferDone

FarSpec == Init /\ [][FarNext]_vars

\* the full viewer with a model whose first face lies at the far end of the
\* ordering table and whose other faces lie at the near end
TransformFaceMix ==
    TransformFaceAt(IF i = 0 THEN {ORDERING_TABLE_SIZE - 1} ELSE {0})

MixInit == Init /\ build = "full"

MixNext ==
    \/ BeginFrame \/ ClearTable \/ ResetArena
    \/ CdNop \/ CdSetloc \/ CdPlay \/ CdIdle
    \/ TransformFaceMix \/ EmitFace \/ EndFaces
    \/ DrawArea
    \/ PrintHud \/ Gradient \/ DrawStar \/ EndStars
    \/ DrawShapeTriangle \/ EndShapes
    \/ WaitForGP0Ready \/ WaitForVSync \/ Submit
    \/ TransferDone

MixSpec == MixInit /\ [][MixNext]_vars

\* The CPU keeps executing, a transfer that was started ends, the vertical
\* retrace comes; nothing makes the CD-ROM controller drop its busy flag.
LiveSpec == Init /\ [][Next]_vars /\ WF_vars(CpuStep) /\ WF_vars(TransferDone)

(* ====================== hardware-readiness polls ====================== *)
\* Every wait on a hardware flag that main reaches: the controller waits of
\* pollController, the waits of uploadVAG, and the CD-ROM waits of cdda.c.
\* hwReady is the condition that ends the wait: it may come at any time or
\* never.
Polls == {"ack", "tx", "clear", "spuMode", "spuDma", "response", "cdReady"}

\* the countdown a wait starts with; waitCDReady has none
StartTimeout(p) ==
    CASE p = "ack" -> AckTimeout
      [] p = "tx" -> TxTimeout
      [] p = "rx" -> RxTimeout
      [] p = "clear" -> ClearTimeout
      [] p = "spuMode" -> SpuModeTimeout
      [] p = "spuDma" -> SpuDmaTimeout
      [] p = "response" -> ResponseTimeout
      [] OTHER -> 0

\* the largest countdown of any wait
MaxTimeout == AckTimeout
\* spins is not counted beyond this
SpinCap == MaxTimeout + 1

PollFrame == UNCHANGED <<lateVars, frameVars, loadVars, padVars, gteVars>>

\* the caller reaches the wait
Call ==
    /\ poll = "idle"
    /\ \E p \in Polls :
        /\ poll' = p
        /\ timeout' = StartTimeout(p)
    /\ hwReady' \in BOOLEAN
    /\ spins' = 0
    /\ ret' = "none"
    /\ PollFrame

\* the wait is over and the caller goes on
Return(how) ==
    /\ poll' = "idle"
    /\ ret' = how
    /\ UNCHANGED <<hwReady, spins>>

Spin == spins' = IF spins < SpinCap THEN spins + 1 ELSE spins

\* for (; timeout > 0; timeout -= 10) { if (IRQ_STAT & ..) return true;
\*   delayMicroseconds(10); } return false;
WaitForAcknowledge ==
    /\ poll = "ack"
    /\ IF timeout > 0
       THEN IF hwReady
            THEN Return("ready") /\ UNCHANGED timeout
            ELSE /\ timeout' = timeout - AckStep
                 /\ Spin
                 /\ UNCHANGED <<poll, hwReady, ret>>
       ELSE Return("timeout") /\ UNCHANGED timeout
    /\ PollFrame

\* while (!(SIO_STAT(0) & SIO_STAT_TX_NOT_FULL)) {
\*   if (--timeout <= 0) return 0xFF; }  SIO_DATA(0) = value; timeout = 10000;
ExchangeTx ==
    /\ poll = "tx"
    /\ IF hwReady
       THEN /\ poll' = "rx"
            /\ timeout' = StartTimeout("rx")
            /\ hwReady' \in BOOLEAN
            /\ spins' = 0
            /\ UNCHANGED ret
       ELSE /\ timeout' = timeout - 1
            /\ IF timeout' <= 0
               THEN Return("timeout")
               ELSE Spin /\ UNCHANGED <<poll, hwReady, ret>>
    /\ PollFrame

\* while (!(SIO_STAT(0) & SIO_STAT_RX_NOT_EMPTY)) {
\*   if (--timeout <= 0) return 0xFF; }  return SIO_DATA(0);
ExchangeRx ==
    /\ poll = "rx"
    /\ IF hwReady
       THEN Return("ready") /\ UNCHANGED timeout
       ELSE /\ timeout' = timeout - 1
            /\ IF timeout' <= 0
               THEN Return("timeout")
               ELSE Spin /\ UNCHANGED <<poll, hwReady, ret>>
    /\ PollFrame

\* while ((SIO_STAT(0) & SIO_STAT_RX_NOT_EMPTY) && clearTimeout-- > 0)
\*   SIO_DATA(0);          (hwReady: the receive buffer is empty)
ClearReceive ==
    /\ poll = "clear"
    /\ IF hwReady
       THEN Return("ready") /\ UNCHANGED timeout
       ELSE /\ timeout' = timeout - 1
            /\ IF timeout > 0
               THEN Spin /\ UNCHANGED <<poll, hwReady, ret>>
               ELSE Return("timeout")
    /\ PollFrame

\* while ((SPU_CTRL_REG & 0x0030) != 0x0020 && --timeout > 0);
\* while ((DMA_CTRL[DMA_SPU].CHCR & 0x01000000) != 0 && --timeout > 0);
SpuWait ==
    /\ poll \in {"spuMode", "spuDma"}
    /\ IF hwReady
       THEN Return("ready") /\ UNCHANGED timeout
       ELSE /\ timeout' = timeout - 1
            /\ IF timeout' > 0
               THEN Spin /\ UNCHANGED <<poll, hwReady, ret>>
               ELSE Return("timeout")
    /\ PollFrame

\* while (!(CDROM_HINTSTS & CDROM_HINT_INT_BITMASK) && timeout > 0) timeout--;
WaitForResponse ==
    /\ poll = "response"
    /\ IF hwReady
       THEN Return("ready") /\ UNCHANGED timeout
       ELSE IF timeout > 0
            THEN /\ timeout' = timeout - 1
                 /\ Spin
                 /\ UNCHANGED <<poll, hwReady, ret>>
            ELSE Return("timeout") /\ UNCHANGED timeout
    /\ PollFrame

\* while (CDROM_HSTS & CDROM_HSTS_BUSYSTS) __asm__ volatile("");
WaitCDReady ==
    /\ poll = "cdReady"
    /\ IF hwReady
       THEN Return("ready")
       ELSE Spin /\ UNCHANGED <<poll, hwReady, ret>>
    /\ UNCHANGED timeout
    /\ PollFrame

\* hardware: the flag waited for comes up
HwSignal ==
    /\ poll # "idle"
    /\ ~hwReady
    /\ hwReady' = TRUE
    /\ UNCHANGED <<poll, timeout, spins, ret>>
    /\ PollFrame

\* the frame loop at rest while a wait is looked at on its own
FrameIdle ==
    /\ pc = "select"
    /\ usingSecondFrame = FALSE
    /\ chain = -1
    /\ bufferX = 0
    /\ dmaChains = [c \in {0, 1} |->
          [orderingTable |-> [b \in Buckets |-> Terminator], nextPacket |-> 0,
           data |-> <<>>]]
    /\ i = 0 /\ nclip = 0 /\ zIndex = 0 /\ dispX = 0
    /\ sub = [busy |-> FALSE, madr |-> Terminator]
    /\ drawTarget = [c \in {0, 1} |-> -1]
    /\ frames = 0
    /\ log = <<>>
    /\ cdBusy = FALSE

PollInit == build = "full" /\ FrameIdle /\ LateIdle /\ PollIdle /\ LoadIdle /\ PadIdle /\ GteIdle

PollNext ==
    \/ Call \/ WaitForAcknowledge \/ ExchangeTx \/ ExchangeRx \/ ClearReceive
    \/ SpuWait \/ WaitForResponse \/ WaitCDReady \/ HwSignal

PollSpec == PollInit /\ [][PollNext]_vars

(* ============================ model loader ============================ *)
\* values of a byte of the model buffer
Bytes == {0, 1}

\* the buffers handed to loadModel; size is the length of the buffer
Buffers == {Buffer(b) : b \in UNION {[1 .. n -> Bytes] : n \in 0 .. MaxModelBytes}}

\* header[k] of (const uint16_t *)data on the little-endian R3000
Header(d, k) == d.bytes[2 * k + 1] + 256 * d.bytes[2 * k + 2]

\* sizeof(GTEVector16) and sizeof(UV)
VectorBytes == 8
UVBytes == 2

\* sizeof(Face): nine int16_t
FaceBytes == 18

\* (offset + 3) & ~3
Align4(o) == ((o + 3) \div 4) * 4

\* a Model structure an earlier call has filled in
UsedModel ==
    [numVertices |-> 1, numUVs |-> 1, numFaces |-> 1, reserved |-> 0,
     vertices |-> 8, uvs |-> 16, faces |-> 20]

\* the structure is cleared before the arguments are checked
loadModel_clears(old, m, d) ==
    IF ~m \/ d.null \/ Len(d.bytes) < HeaderSize
    THEN [ok |-> FALSE,
          model |-> [numVertices |-> 0, numUVs |-> 0, numFaces |-> 0, reserved |-> 0,
                     vertices |-> 0, uvs |-> 0, faces |-> 0]]
    ELSE LET uvOffset == Align4(HeaderSize + Header(d, 0) * VectorBytes)
         IN  [ok |-> TRUE,
              model |-> [numVertices |-> Header(d, 0), numUVs |-> Header(d, 1),
                         numFaces |-> Header(d, 2), reserved |-> Header(d, 3),
                         vertices |-> HeaderSize, uvs |-> uvOffset,
                         faces |-> Align4(uvOffset + Header(d, 1) * UVBytes)]]

\* the size check rejects a buffer of exactly the header size
loadModel_strict(old, m, d) ==
    IF ~m \/ d.null \/ Len(d.bytes) <= HeaderSize
    THEN [ok |-> FALSE, model |-> old]
    ELSE LET uvOffset == Align4(HeaderSize + Header(d, 0) * VectorBytes)
         IN  [ok |-> TRUE,
              model |-> [numVertices |-> Header(d, 0), numUVs |-> Header(d, 1),
                         numFaces |-> Header(d, 2), reserved |-> Header(d, 3),
                         vertices |-> HeaderSize, uvs |-> uvOffset,
                         faces |-> Align4(uvOffset + Header(d, 1) * UVBytes)]]

\* bool loadModel(Model *model, const uint8_t *data, size_t size): m says
\* that model is not null, d is data (Null or the size bytes), old is what
\* *model held.  The table pointers are kept as offsets into data.
loadModel(old, m, d) ==
    IF ~m \/ d.null \/ Len(d.bytes) < HeaderSize
    THEN [ok |-> FALSE, model |-> old]
    ELSE LET uvOffset == Align4(HeaderSize + Header(d, 0) * VectorBytes)
         IN  [ok |-> TRUE,
              model |-> [numVertices |-> Header(d, 0), numUVs |-> Header(d, 1),
                         numFaces |-> Header(d, 2), reserved |-> Header(d, 3),
                         vertices |-> HeaderSize, uvs |-> uvOffset,
                         faces |-> Align4(uvOffset + Header(d, 1) * UVBytes)]]

LoadFrame == UNCHANGED <<lateVars, frameVars, pollVars, padVars, gteVars>>

\* a call of loadModel
LoadModelCall ==
    /\ startPc = "call"
    /\ LET r == loadModel(model, modelArg, modelData) IN
        /\ loaded' = (IF r.ok THEN "true" ELSE "false")
        /\ model' = r.model
    /\ startPc' = "called"
    /\ UNCHANGED <<modelArg, modelData, audio, reported, built>>
    /\ LoadFrame

\* any arguments, null pointers included
LoadInit ==
    /\ build = "full" /\ FrameIdle /\ LateIdle /\ PollIdle /\ PadIdle /\ GteIdle
    /\ startPc = "call"
    /\ modelArg \in BOOLEAN
    /\ modelData \in Buffers \cup {Null}
    /\ model \in {UnsetModel, UsedModel}
    /\ loaded = "none"
    /\ audio = {} /\ reported = FALSE /\ built = 0

LoadNext == LoadModelCall

LoadSpec == LoadInit /\ [][LoadNext]_vars

(* ========================= start-up of main =========================== *)
\* if (!loadModel(&model, modelData, modelData_size)) ...: the call
LoadModelData ==
    /\ startPc = "load"
    /\ LET r == loadModel(model, modelArg, modelData) IN
        /\ loaded' = (IF r.ok THEN "true" ELSE "false")
        /\ model' = r.model
    /\ startPc' = "check"
    /\ UNCHANGED <<modelArg, modelData, audio, reported, built>>
    /\ LoadFrame

\* the result of loadModel is not looked at
CheckModel_ignored ==
    /\ startPc = "check"
    /\ startPc' = "spu"
    /\ UNCHANGED <<modelArg, modelData, model, loaded, audio, reported, built>>
    /\ LoadFrame

\* ... { puts("Failed to load model!"); return 1; }
CheckModel ==
    /\ startPc = "check"
    /\ IF loaded = "false"
       THEN reported' = TRUE /\ startPc' = "returned"
       ELSE reported' = reported /\ startPc' = "spu"
    /\ UNCHANGED <<modelArg, modelData, model, loaded, audio, built>>
    /\ LoadFrame

\* setupSPU(); biosInit(); uploadVAG(musicData, musicData_size);
SetupSPU ==
    /\ startPc = "spu"
    /\ audio' = audio \cup {"spu"}
    /\ startPc' = "cdda"
    /\ UNCHANGED <<modelArg, modelData, model, loaded, reported, built>>
    /\ LoadFrame

\* initCDDA(); spuUnmute(); initStarfield();
InitCDDA ==
    /\ startPc = "cdda"
    /\ audio' = audio \cup {"cdda"}
    /\ startPc' = "loop"
    /\ UNCHANGED <<modelArg, modelData, model, loaded, reported, built>>
    /\ LoadFrame

\* for (;;) { ... sendLinkedList(...); }: one frame built and submitted
RunFrame ==
    /\ startPc = "loop"
    /\ built' = IF built < 2 THEN built + 1 ELSE built
    /\ built' # built
    /\ UNCHANGED <<startPc, modelArg, modelData, model, loaded, audio, reported>>
    /\ LoadFrame

\* main is entered with the embedded model data, whatever its size
StartInit ==
    /\ build = "full" /\ FrameIdle /\ LateIdle /\ PollIdle /\ PadIdle /\ GteIdle
    /\ startPc = "load"
    /\ modelArg = TRUE
    /\ modelData \in Buffers
    /\ model = UnsetModel
    /\ loaded = "none"
    /\ audio = {} /\ reported = FALSE /\ built = 0

StartNext ==
    \/ LoadModelData \/ CheckModel \/ SetupSPU \/ InitCDDA \/ RunFrame

StartSpec == StartInit /\ [][StartNext]_vars

(* ======================== controller exchange ========================= *)
\* what exchangeByteWithTimeout returns when a wait runs out
ByteTimeout == 255

\* first reply bytes: digital pad (type 4, 1 halfword), DualShock (type 7,
\* 3 halfwords); later reply bytes
TypeBytes == {65, 115}
PadBytes == {0, 127, 255}

\* uint8_t response[8] = {0, 0, 0, 0, 0x80, 0x80, 0x80, 0x80};
EmptyResponse == <<0, 0, 0, 0, 128, 128, 128, 128>>

\* a ControllerState with every button down and the sticks pushed
Pressed ==
    [buttons |-> 65535, leftX |-> 255, leftY |-> 255, rightX |-> 255,
     rightY |-> 255, isAnalog |-> TRUE]

\* response[k] of the C array
Resp(k) == response[k + 1]

\* int type = response[0] >> 4;
TypeOf(r0) == r0 \div 16
\* int responseLen = ((response[0] & 0x0F) + 1) * 2; if (responseLen > 8) responseLen = 8;
ResponseLenOf(r0) ==
    LET len == ((r0 % 16) + 1) * 2 IN IF len > 8 THEN 8 ELSE len

\* (response[2] | (response[3] << 8)) ^ 0xFFFF, as uint16_t
ButtonsOf(r2, r3) == 65535 - (r2 + 256 * r3)

PadFrame == UNCHANGED <<lateVars, frameVars, pollVars, loadVars, gteVars>>

\* pollController(0, &pad): defaults, port select, DTR, address byte 0x01
PollStart ==
    /\ padPc = "start"
    /\ pad' = Neutral
    /\ dtr' = TRUE
    /\ padPc' = "address"
    /\ UNCHANGED <<response, padI, responseLen, missed>>
    /\ PadFrame

\* the early return without the release:  if (!waitForAcknowledge(500)) return;
AckAddress_noRelease ==
    /\ padPc = "address"
    /\ \E ack \in BOOLEAN :
        IF ack
        THEN padPc' = "first" /\ UNCHANGED <<dtr, missed>>
        ELSE padPc' = "done" /\ missed' = TRUE /\ UNCHANGED dtr
    /\ UNCHANGED <<pad, response, padI, responseLen>>
    /\ PadFrame

\* if (!waitForAcknowledge(500)) { SIO_CTRL(0) &= ~SIO_CTRL_DTR; return; }
\* then the receive buffer is flushed
AckAddress ==
    /\ padPc = "address"
    /\ \E ack \in BOOLEAN :
        IF ack
        THEN padPc' = "first" /\ UNCHANGED <<dtr, missed>>
        ELSE padPc' = "done" /\ dtr' = FALSE /\ missed' = TRUE
    /\ UNCHANGED <<pad, response, padI, responseLen>>
    /\ PadFrame

\* response[0] = exchangeByteWithTimeout(request[0], 20000);
\* if (!waitForAcknowledge(500)) goto done;  type, halfwords, responseLen
FirstByte ==
    /\ padPc = "first"
    /\ \E b \in TypeBytes \cup {ByteTimeout}, late \in BOOLEAN, ack \in BOOLEAN :
        /\ late => b = ByteTimeout
        /\ response' = [EmptyResponse EXCEPT ![1] = b]
        /\ missed' = (missed \/ late \/ ~ack)
        /\ IF ack
           THEN /\ responseLen' = ResponseLenOf(b)
                /\ padI' = 1
                /\ padPc' = "read"
           ELSE /\ padPc' = "release"
                /\ UNCHANGED <<responseLen, padI>>
    /\ UNCHANGED <<pad, dtr>>
    /\ PadFrame

\* for (int i = 1; i < responseLen; i++) {
\*   response[i] = exchangeByteWithTimeout(request[i], 20000);
\*   if (i < responseLen - 1 && !waitForAcknowledge(500)) break; }
ReadByte ==
    /\ padPc = "read"
    /\ padI < responseLen
    /\ \E b \in PadBytes, late \in BOOLEAN, ack \in BOOLEAN :
        /\ late => b = ByteTimeout
        /\ response' = [response EXCEPT ![padI + 1] = b]
        /\ IF padI < responseLen - 1 /\ ~ack
           THEN /\ padPc' = "parse"
                /\ missed' = TRUE
                /\ UNCHANGED padI
           ELSE /\ padI' = padI + 1
                /\ missed' = (missed \/ late)
                /\ UNCHANGED padPc
    /\ UNCHANGED <<pad, responseLen, dtr>>
    /\ PadFrame

EndRead ==
    /\ padPc = "read"
    /\ ~(padI < responseLen)
    /\ padPc' = "parse"
    /\ UNCHANGED <<pad, response, padI, responseLen, missed, dtr>>
    /\ PadFrame

\* state->buttons = (response[2] | (response[3] << 8)) ^ 0xFFFF;
\* if (type == 0x7 || type == 0x5) { isAnalog, rightX, rightY, leftX, leftY }
Parse ==
    /\ padPc = "parse"
    /\ pad' = IF TypeOf(Resp(0)) \in {7, 5}
              THEN [buttons |-> ButtonsOf(Resp(2), Resp(3)), isAnalog |-> TRUE,
                    rightX |-> Resp(4), rightY |-> Resp(5),
                    leftX |-> Resp(6), leftY |-> Resp(7)]
              ELSE [pad EXCEPT !.buttons = ButtonsOf(Resp(2), Resp(3))]
    /\ padPc' = "release"
    /\ UNCHANGED <<response, padI, responseLen, missed, dtr>>
    /\ PadFrame

\* done: delayMicroseconds(60); SIO_CTRL(0) &= ~SIO_CTRL_DTR;
Release ==
    /\ padPc = "release"
    /\ dtr' = FALSE
    /\ padPc' = "done"
    /\ UNCHANGED <<pad, response, padI, responseLen, missed>>
    /\ PadFrame

\* the next iteration of the frame loop: ControllerState pad; is a new
\* local, holding whatever the stack holds
NextPoll ==
    /\ padPc = "done"
    /\ padPc' = "start"
    /\ pad' \in {Neutral, Pressed}
    /\ response' = EmptyResponse
    /\ padI' = 0
    /\ responseLen' = 0
    /\ missed' = FALSE
    /\ UNCHANGED dtr
    /\ PadFrame

PadInit ==
    /\ build = "full" /\ FrameIdle /\ LateIdle /\ PollIdle /\ LoadIdle /\ GteIdle
    /\ padPc = "start"
    /\ pad \in {Neutral, Pressed}
    /\ response = EmptyResponse
    /\ padI = 0
    /\ responseLen = 0
    /\ missed = FALSE
    /\ dtr = FALSE

PadNext ==
    \/ PollStart \/ AckAddress \/ FirstByte \/ ReadByte \/ EndRead \/ Parse
    \/ Release \/ NextPoll

PadSpec == PadInit /\ [][PadNext]_vars

(* ===================== fixed-point trigonometry ======================= *)

\* src/main.c:25  #define ONE (1 << 12)
ONE == 4096

\* trig.h: a quarter turn is 1 << ISIN_SHIFT angle units
ISIN_SHIFT == 10

\* src/trig.c:8-10
A_shift13 == 2 ^ 13
A == 4096
B == 19900
C == 3516

\* a 32-bit left shift of v by k: the bits shifted out are lost and bit 31 is
\* the sign
ShiftLeft32(v, k) ==
    LET m == v % (2 ^ (32 - k))
    IN  IF m >= 2 ^ (31 - k) THEN (m - 2 ^ (32 - k)) * (2 ^ k) ELSE m * (2 ^ k)

\* an arithmetic right shift
ShiftRight(v, k) == v \div (2 ^ k)

\* a + b in 32-bit two's complement
Add32(a, b) ==
    IF b >= 0 /\ a > 2147483647 - b
    THEN (a - 2147483647 - 1) + (b - 2147483647 - 1)
    ELSE IF b < 0 /\ a < (-2147483647 - 1) - b
    THEN (a + 2147483647 + 1) + (b + 2147483647 + 1)
    ELSE a + b

\* isin without the re-centring  x -= 1 << ISIN_SHIFT
isin_uncentred(angle) ==
    LET c  == ShiftLeft32(angle, 30 - ISIN_SHIFT)
        x1 == angle
        x2 == ShiftRight(ShiftLeft32(x1, 31 - ISIN_SHIFT), 31 - ISIN_SHIFT)
        x3 == ShiftRight(x2 * x2, 2 * ISIN_SHIFT - 14)
        y1 == B - ShiftRight(x3 * C, 14)
        y2 == A - ShiftRight(x3 * y1, 16)
    IN  IF c >= 0 THEN y2 ELSE -y2

\* isin taking its sign from one bit higher:  c = x << (29 - ISIN_SHIFT)
isin_sign29(angle) ==
    LET c  == ShiftLeft32(angle, 29 - ISIN_SHIFT)
        x1 == Add32(angle, -(2 ^ ISIN_SHIFT))
        x2 == ShiftRight(ShiftLeft32(x1, 31 - ISIN_SHIFT), 31 - ISIN_SHIFT)
        x3 == ShiftRight(x2 * x2, 2 * ISIN_SHIFT - 14)
        y1 == B - ShiftRight(x3 * C, 14)
        y2 == A - ShiftRight(x3 * y1, 16)
    IN  IF c >= 0 THEN y2 ELSE -y2

\* src/trig.c:12-25
isin(angle) ==
    LET c  == ShiftLeft32(angle, 30 - ISIN_SHIFT)
        x1 == Add32(angle, -(2 ^ ISIN_SHIFT))
        x2 == ShiftRight(ShiftLeft32(x1, 31 - ISIN_SHIFT), 31 - ISIN_SHIFT)
        x3 == ShiftRight(x2 * x2, 2 * ISIN_SHIFT - 14)
        y1 == B - ShiftRight(x3 * C, 14)
        y2 == A - ShiftRight(x3 * y1, 16)
    IN  IF c >= 0 THEN y2 ELSE -y2

\* trig.h: the cosine is the sine a quarter turn ahead
icos(angle) == isin(angle + 2 ^ ISIN_SHIFT)

(* ---- isin applied to arbitrary angles ---- *)

\* a quarter turn and a full turn in angle units
QuarterTurn == 2 ^ ISIN_SHIFT
FullTurn == 4 * QuarterTurn

\* the angles isin is called with: every angle of one turn, angles on both
\* sides of it, and angles at the ends of the 32-bit range
TrigAngles ==
    (0 .. FullTurn - 1)
    \cup {-FullTurn - 1, -FullTurn, -QuarterTurn, -1, FullTurn, FullTurn + QuarterTurn}
    \cup {2147483647, 2147483647 - 1, 2147483647 - FullTurn,
          2147483647 - FullTurn + 1, -2147483647 - 1, -2147483647,
          (-2147483647 - 1) + QuarterTurn}

TrigFrame == UNCHANGED <<frameVars, pollVars, loadVars, padVars, gteVars, cubeVars,
                         edgeVars, cddaVars, fieldVars>>

\* -a as the 32-bit build computes it: the lowest value is its own negative
Neg32(a) == IF a = -2147483647 - 1 THEN a ELSE -a

\* y = isin(x) and, for comparison, isin(x + full turn), isin(x + half a
\* turn) and isin(-x)
IsinCall ==
    /\ trigPc = "call"
    /\ sine' = isin(arg)
    /\ shifted' = isin(Add32(arg, FullTurn))
    /\ halfTurned' = isin(Add32(arg, 2 * QuarterTurn))
    /\ negated' = isin(Neg32(arg))
    /\ trigPc' = "done"
    /\ UNCHANGED arg
    /\ TrigFrame

TrigInit ==
    /\ build = "basic" /\ FrameIdle /\ PollIdle /\ LoadIdle /\ PadIdle /\ GteIdle
    /\ CubeIdle /\ EdgeIdle /\ CddaIdle /\ FieldIdle
    /\ trigPc = "call"
    /\ arg \in TrigAngles
    /\ sine = 0
    /\ shifted = 0
    /\ halfTurned = 0
    /\ negated = 0

TrigNext == IsinCall

TrigSpec == TrigInit /\ [][TrigNext]_vars

(* ======================== geometry engine ============================= *)

Identity == <<<<ONE, 0, 0>>, <<0, ONE, 0>>, <<0, 0, ONE>>>>

\* the engine keeps 16-bit results
Sat16(x) == IF x > 32767 THEN 32767 ELSE IF x < -32768 THEN -32768 ELSE x

\* gte_setColumnVectors: the nine arguments are a matrix written row by row;
\* its column k becomes the vector register V(k-1)
setColumnVectors(m) == [k \in 1 .. 3 |-> <<m[1][k], m[2][k], m[3][k]>>]

\* MVMVA with the rotation matrix, a vector register, no translation and the
\* 12-bit shift: IR = (RT * V) >> 12, saturated
MVMVA(rt, v) ==
    [r \in 1 .. 3 |->
        Sat16(ShiftRight(rt[r][1] * v[1] + rt[r][2] * v[2] + rt[r][3] * v[3], 12))]

\* src/main.c:53-69  output->values[r][k] is IR(r) of the transform of V(k)
multiplyCurrentMatrixByVectors(rt, V) ==
    [r \in 1 .. 3 |-> [k \in 1 .. 3 |-> MVMVA(rt, V[k])[r]]]

\* src/main.c:81-85, 96-100, 111-115: the arguments of gte_setColumnVectors
YawVectors(s, c)   == <<<<c, -s, 0>>, <<s, c, 0>>, <<0, 0, ONE>>>>
PitchVectors_asYaw(s, c) == <<<<c, -s, 0>>, <<s, c, 0>>, <<0, 0, ONE>>>>
PitchVectors(s, c) == <<<<c, 0, s>>, <<0, ONE, 0>>, <<-s, 0, c>>>>
RollVectors(s, c)  == <<<<ONE, 0, 0>>, <<0, c, -s>>, <<0, s, c>>>>

\* one axis step: build the vectors, multiply, load the product
Step(rt, m) == multiplyCurrentMatrixByVectors(rt, setColumnVectors(m))

\* rotateCurrentMatrix with the pitch step ahead of the yaw step
rotateCurrentMatrix_pitchFirst(rt, yaw, pitch, roll) ==
    LET m1 == IF pitch # 0
              THEN Step(rt, PitchVectors(isin(pitch), icos(pitch))) ELSE rt
        m2 == IF yaw # 0
              THEN Step(m1, YawVectors(isin(yaw), icos(yaw))) ELSE m1
        m3 == IF roll # 0
              THEN Step(m2, RollVectors(isin(roll), icos(roll))) ELSE m2
    IN  m3

\* src/main.c:72-117, src/src/main.c:263-308
rotateCurrentMatrix(rt, yaw, pitch, roll) ==
    LET m1 == IF yaw # 0
              THEN Step(rt, YawVectors(isin(yaw), icos(yaw))) ELSE rt
        m2 == IF pitch # 0
              THEN Step(m1, PitchVectors(isin(pitch), icos(pitch))) ELSE m1
        m3 == IF roll # 0
              THEN Step(m2, RollVectors(isin(roll), icos(roll))) ELSE m2
    IN  m3

(* ---- perspective transform ---- *)

\* src/main.c:28  #define SCREEN_HEIGHT 240
SCREEN_HEIGHT == 240

\* src/main.c:40-41  screen offset, 16.16 fixed point
GTE_OFX == (SCREEN_WIDTH * 65536) \div 2
GTE_OFY == (SCREEN_HEIGHT * 65536) \div 2

\* src/main.c:44-45  projection plane distance
GTE_H == (IF SCREEN_WIDTH < SCREEN_HEIGHT THEN SCREEN_WIDTH ELSE SCREEN_HEIGHT) \div 2

Clamp(x, lo, hi) == IF x < lo THEN lo ELSE IF x > hi THEN hi ELSE x

\* the perspective transform of one vertex (RTPS with the 12-bit shift):
\* IR = (TR * 4096 + RT * V) >> 12, SZ = IR3 limited to 16 bits unsigned,
\* n = H / SZ in 16.16 rounded, SX = (n * IR1 + OFX) >> 16 limited to 11 bits
Project(rt, tr, v) ==
    LET ir == [r \in 1 .. 3 |->
                 Sat16(ShiftRight(tr[r] * 4096 + rt[r][1] * v[1]
                                  + rt[r][2] * v[2] + rt[r][3] * v[3], 12))]
        sz == Clamp(ir[3], 0, 65535)
        n  == IF GTE_H < sz * 2
              THEN Clamp(((GTE_H * 131072) \div sz + 1) \div 2, 0, 131071)
              ELSE 131071
    IN  << Clamp(ShiftRight(n * ir[1] + GTE_OFX, 16), -1024, 1023),
           Clamp(ShiftRight(n * ir[2] + GTE_OFY, 16), -1024, 1023) >>

\* vertices handed to the transform
Vertices == {<<32, 0, 0>>, <<0, 32, 0>>, <<0, 0, 32>>, <<32, 32, 32>>}

(* ---- rotateCurrentMatrix applied to arbitrary register contents ---- *)

\* the angles the calls are made with
Angles == {0, 512, 1024}

\* how many calls in a row are followed
MaxCalls == 2

\* what the rotation matrix may hold before a call
StartMatrices ==
    { Identity,
      NoMatrix,
      <<<<32767, -32768, 1>>, <<-5, 7, 4096>>, <<100, -100, 0>>>>,
      <<<<0, 4096, 0>>, <<-4096, 0, 0>>, <<0, 0, 4096>>>> }

\* everything but the rotation registers and the call log
RotFrame == UNCHANGED <<lateVars, frameVars, pollVars, loadVars, padVars,
                        gtePc, TR, start, rotation, shape>>

RotateCall ==
    /\ gtePc = "call"
    /\ Len(calls) < MaxCalls
    /\ \E yaw \in Angles, pitch \in Angles, roll \in Angles :
          /\ before' = RT
          /\ RT' = rotateCurrentMatrix(RT, yaw, pitch, roll)
          /\ calls' = Append(calls, <<yaw, pitch, roll>>)
    /\ RotFrame

RotInit ==
    /\ build \in Builds /\ FrameIdle /\ LateIdle /\ PollIdle /\ LoadIdle /\ PadIdle
    /\ gtePc = "call"
    /\ RT \in StartMatrices
    /\ start = RT
    /\ before = RT
    /\ TR = <<0, 0, 300>>
    /\ calls = <<>>
    /\ rotation = <<0, 0, 0>>
    /\ shape = 0

RotNext == RotateCall

RotSpec == RotInit /\ [][RotNext]_vars

(* ---- the face loop of the basic viewer run over a cube ---- *)

\* the largest half edge looked at
MaxHalf == 60

CubeHalves == 20 .. MaxHalf

\* vertex k of a cube of half edge h centred on the origin: bit 0 of k - 1
\* gives the side in x, bit 1 in y, bit 2 in z
CubeVertex(k, h) ==
    << IF (k - 1) % 2 = 1 THEN h ELSE -h,
       IF ((k - 1) \div 2) % 2 = 1 THEN h ELSE -h,
       IF ((k - 1) \div 4) % 2 = 1 THEN h ELSE -h >>

\* the 12 triangles of the cube, two per side, each wound so that it runs
\* clockwise on the screen when seen from outside the cube
CubeFaces ==
    << <<1, 3, 7>>, <<1, 7, 5>>, <<2, 8, 4>>, <<2, 6, 8>>,
       <<1, 6, 2>>, <<1, 5, 6>>, <<3, 4, 8>>, <<3, 8, 7>>,
       <<1, 2, 4>>, <<1, 4, 3>>, <<5, 8, 6>>, <<5, 7, 8>> >>

\* NCLIP: MAC0 = SX0*SY1 + SX1*SY2 + SX2*SY0 - SX0*SY2 - SX1*SY0 - SX2*SY1
NCLIP(p0, p1, p2) ==
    p0[1] * p1[2] + p1[1] * p2[2] + p2[1] * p0[2]
    - p0[1] * p2[2] - p1[1] * p0[2] - p2[1] * p1[2]

\* src/main.c:177-189 with frameCounter = 0: translation (0, 0, 300) and the
\* identity rotated by (0, 0, 0)
CubeRT == rotateCurrentMatrix(Identity, 0, 0 * 16, 0)
CubeTR == <<0, 0, 300>>

\* src/main.c:196-204  load the three vertices, RTPT, NCLIP, read MAC0
FaceNclip(f, h) ==
    NCLIP(Project(CubeRT, CubeTR, CubeVertex(CubeFaces[f][1], h)),
          Project(CubeRT, CubeTR, CubeVertex(CubeFaces[f][2], h)),
          Project(CubeRT, CubeTR, CubeVertex(CubeFaces[f][3], h)))

CubeFrame == UNCHANGED <<frameVars, pollVars, loadVars, padVars, gteVars, trigVars,
                         edgeVars, cddaVars, fieldVars>>

\* the loop body without  if (nclip <= 0) continue;
CubeFace_noCull ==
    /\ cubePc = "faces"
    /\ face < Len(CubeFaces)
    /\ passed' = passed + 1
    /\ face' = face + 1
    /\ UNCHANGED <<cubePc, half>>
    /\ CubeFrame

\* src/main.c:192-207  one face: skipped when MAC0 <= 0
CubeFace ==
    /\ cubePc = "faces"
    /\ face < Len(CubeFaces)
    /\ passed' = IF FaceNclip(face + 1, half) <= 0 THEN passed ELSE passed + 1
    /\ face' = face + 1
    /\ UNCHANGED <<cubePc, half>>
    /\ CubeFrame

\* src/main.c:192  the loop ends
CubeLoopEnd ==
    /\ cubePc = "faces"
    /\ face = Len(CubeFaces)
    /\ cubePc' = "counted"
    /\ UNCHANGED <<half, face, passed>>
    /\ CubeFrame

\* the next frame with the same rotation
CubeNextFrame ==
    /\ cubePc = "counted"
    /\ cubePc' = "faces"
    /\ face' = 0
    /\ passed' = 0
    /\ UNCHANGED half
    /\ CubeFrame

CubeInit ==
    /\ build = "basic" /\ FrameIdle /\ PollIdle /\ LoadIdle /\ PadIdle /\ GteIdle
    /\ TrigIdle /\ EdgeIdle /\ CddaIdle /\ FieldIdle
    /\ cubePc = "faces"
    /\ half \in CubeHalves
    /\ face = 0
    /\ passed = 0

CubeNext == CubeFace \/ CubeLoopEnd \/ CubeNextFrame

CubeSpec == CubeInit /\ [][CubeNext]_vars

(* ---- the geometry registers over the frames of the main loop ---- *)

\* src/src/main.c:90  #define NUM_SHAPES 6, scaled down
NUM_SHAPES == 2

\* the angles the input handling and the frame counter arrive at
InputAngles == {-32, 0, 512}

\* src/src/main.c:153-155, 193-195  the angles a shape turns through
ShapeAngles == {0, 1024}

\* src/src/main.c:143-151  where resetShape and updateShapes put a shape
ShapePositions == {<<-150, -90, 350>>, <<449, 89, 599>>}

\* what the translation registers may hold at power-on
StartVectors == {NoVector, <<-90, 40, 599>>}

GteFrame == UNCHANGED <<lateVars, frameVars, pollVars, loadVars, padVars, start, calls>>

\* the reset without the gte_setRotationMatrix call
GteReset_keepMatrix ==
    /\ gtePc = "reset"
    /\ before' = RT
    /\ TR' = <<0, 0, 300>>
    /\ RT' = RT
    /\ gtePc' = "rotate"
    /\ UNCHANGED <<rotation, shape>>
    /\ GteFrame

\* src/main.c:177-185, src/src/main.c:640-648  translation and rotation reset
GteReset ==
    /\ gtePc = "reset"
    /\ before' = RT
    /\ TR' = <<0, 0, 300>>
    /\ RT' = Identity
    /\ gtePc' = "rotate"
    /\ UNCHANGED <<rotation, shape>>
    /\ GteFrame

\* src/main.c:188, src/src/main.c:651  rotateCurrentMatrix(yaw, pitch, roll)
RotateModel ==
    /\ gtePc = "rotate"
    /\ RT' = rotateCurrentMatrix(RT, rotation[1], rotation[2], rotation[3])
    /\ gtePc' = "faces"
    /\ UNCHANGED <<TR, before, rotation, shape>>
    /\ GteFrame

\* src/main.c:192-244, src/src/main.c:654-698  the face loop reads the
\* registers and leaves them alone
TransformFaces ==
    /\ gtePc = "faces"
    /\ gtePc' = IF build = "full" THEN "shapes" ELSE "input"
    /\ shape' = 0
    /\ UNCHANGED <<RT, TR, before, rotation>>
    /\ GteFrame

\* src/src/main.c:789-800  one background shape: its own translation, the
\* identity, its own rotation
SetupShape ==
    /\ gtePc = "shapes"
    /\ shape < NUM_SHAPES
    /\ \E pos \in ShapePositions, rotY \in ShapeAngles, rotX \in ShapeAngles,
          rotZ \in ShapeAngles :
          IF pos[3] < 50
          THEN UNCHANGED <<RT, TR>>
          ELSE /\ TR' = pos
               /\ RT' = rotateCurrentMatrix(Identity, rotY, rotX, rotZ)
    /\ shape' = shape + 1
    /\ UNCHANGED <<gtePc, before, rotation>>
    /\ GteFrame

\* src/src/main.c:789  the shape loop ends
LeaveShapes ==
    /\ gtePc = "shapes"
    /\ shape = NUM_SHAPES
    /\ gtePc' = "input"
    /\ UNCHANGED <<RT, TR, before, rotation, shape>>
    /\ GteFrame

\* src/main.c:188-189  the next frame's pitch is frameCounter * 16;
\* src/src/main.c:581-617  the pad moves yaw, pitch and roll
ReadInput ==
    /\ gtePc = "input"
    /\ \E yaw \in InputAngles, pitch \in InputAngles, roll \in InputAngles :
          /\ build = "basic" => yaw = 0 /\ roll = 0
          /\ rotation' = <<yaw, pitch, roll>>
    /\ gtePc' = "reset"
    /\ UNCHANGED <<RT, TR, before, shape>>
    /\ GteFrame

GteInit ==
    /\ build \in Builds /\ FrameIdle /\ LateIdle /\ PollIdle /\ LoadIdle /\ PadIdle
    /\ gtePc = "reset"
    /\ RT \in StartMatrices
    /\ TR \in StartVectors
    /\ start = RT
    /\ before = RT
    /\ calls = <<>>
    /\ rotation = <<0, 0, 0>>
    /\ shape = 0

GteNext ==
    \/ GteReset \/ RotateModel \/ TransformFaces \/ SetupShape \/ LeaveShapes
    \/ ReadInput

GteSpec == GteInit /\ [][GteNext]_vars

(* ================== the X button of the full viewer =================== *)

\* src/src/main.c:57  #define PAD_X (1 << 14)
PAD_X == 16384

\* polls in a row with X down that are told apart
MaxHeld == 3

\* fades since a flash that are told apart
MaxSince == 23

\* pad.buttons & PAD_X
HasX(b) == (b \div PAD_X) % 2 = 1

\* button words a poll may deliver: nothing, X alone, everything, UP alone,
\* everything but X
ButtonValues == {0, 16384, 65535, 16, 49151}

\* what uploadVAG returned: nothing uploaded, or the address of the sample
SoundAddrs == {0, 4112}

EdgeFrame == UNCHANGED <<frameVars, pollVars, loadVars, padVars, gteVars, trigVars,
                         cubeVars, cddaVars, fieldVars>>

\* src/src/main.c:577-579  pollController fills pad
PollPad ==
    /\ edgePc = "poll"
    /\ \E b \in ButtonValues :
          /\ padButtons' = b
          /\ held' = IF HasX(b)
                     THEN (IF held < MaxHeld THEN held + 1 ELSE held) ELSE 0
          /\ firedInHold' = IF HasX(b) /\ held > 0 THEN firedInHold ELSE 0
    /\ wasX' = HasX(padButtons)
    /\ fired' = FALSE
    /\ sampled' = FALSE
    /\ edgePc' = "edge"
    /\ UNCHANGED <<prevButtons, bgFlash, spuSoundAddr, sincePress>>
    /\ EdgeFrame

\* the test without the edge detection:  if (pad.buttons & PAD_X)
XEdge_level ==
    /\ edgePc = "edge"
    /\ IF HasX(padButtons)
       THEN /\ sampled' = (spuSoundAddr # 0)
            /\ bgFlash' = 255
            /\ fired' = TRUE
            /\ firedInHold' = IF firedInHold < 2 THEN firedInHold + 1 ELSE 2
            /\ sincePress' = 0
       ELSE UNCHANGED <<sampled, bgFlash, fired, firedInHold, sincePress>>
    /\ prevButtons' = padButtons
    /\ edgePc' = "fade"
    /\ UNCHANGED <<padButtons, spuSoundAddr, wasX, held>>
    /\ EdgeFrame

\* src/src/main.c:620-626  playSample and flash on a press edge
XEdge ==
    /\ edgePc = "edge"
    /\ IF HasX(padButtons) /\ ~HasX(prevButtons)
       THEN /\ sampled' = (spuSoundAddr # 0)
            /\ bgFlash' = 255
            /\ fired' = TRUE
            /\ firedInHold' = IF firedInHold < 2 THEN firedInHold + 1 ELSE 2
            /\ sincePress' = 0
       ELSE UNCHANGED <<sampled, bgFlash, fired, firedInHold, sincePress>>
    /\ prevButtons' = padButtons
    /\ edgePc' = "fade"
    /\ UNCHANGED <<padButtons, spuSoundAddr, wasX, held>>
    /\ EdgeFrame

\* the fade without its lower limit:  if (bgFlash > 0) bgFlash -= 12;
Fade_noClamp ==
    /\ edgePc = "fade"
    /\ bgFlash' = IF bgFlash > 0 THEN bgFlash - 12 ELSE bgFlash
    /\ sincePress' = IF sincePress < MaxSince THEN sincePress + 1 ELSE sincePress
    /\ edgePc' = "poll"
    /\ UNCHANGED <<padButtons, prevButtons, spuSoundAddr, fired, sampled, wasX,
                   held, firedInHold>>
    /\ EdgeFrame

\* src/src/main.c:629-632  the flash fades by 12 per frame
Fade ==
    /\ edgePc = "fade"
    /\ sincePress' = IF sincePress < MaxSince THEN sincePress + 1 ELSE sincePress
    /\ bgFlash' = IF bgFlash > 0
                  THEN (IF bgFlash - 12 < 0 THEN 0 ELSE bgFlash - 12)
                  ELSE bgFlash
    /\ edgePc' = "poll"
    /\ UNCHANGED <<padButtons, prevButtons, spuSoundAddr, fired, sampled, wasX,
                   held, firedInHold>>
    /\ EdgeFrame

\* src/src/main.c:523-527, 553, 560
EdgeInit ==
    /\ build = "full" /\ FrameIdle /\ PollIdle /\ LoadIdle /\ PadIdle /\ GteIdle
    /\ TrigIdle /\ CubeIdle /\ CddaIdle /\ FieldIdle
    /\ edgePc = "poll"
    /\ padButtons = 0
    /\ prevButtons = 0
    /\ bgFlash = 0
    /\ spuSoundAddr \in SoundAddrs
    /\ fired = FALSE
    /\ sampled = FALSE
    /\ wasX = FALSE
    /\ held = 0
    /\ firedInHold = 0
    /\ sincePress = MaxSince

EdgeNext == PollPad \/ XEdge \/ Fade

EdgeSpec == EdgeInit /\ [][EdgeNext]_vars

(* ========================= CD-DA playback ============================= *)
\* Each function of cdda.h is one step, from its entry to its return; the
\* bytes the drive answers are inputs.

\* src/src/cdda.c:13-22  command bytes
CdlNop == 1
CdlSetloc == 2
CdlPlay == 3
CdlStop == 8
CdlPause == 9
CdlInit == 10
CdlDemute == 12
CdlSetmode == 14
CdlGetTN == 19
CdlGetTD == 20

\* src/src/cdda.c:25-26, 29  mode and status flags
CdlModeDA == 1
CdlModeRept == 4
CdlStatPlay == 128

\* src/src/cdda.c:39  static CdlLOC loc[100];
LOC_SIZE == 100

\* src/src/cdda.c:282  if (loopWait >= 5)
LoopFrames == 5

\* last-track bytes GetTN may answer (BCD): no track, 1, 2, 3 and 10 tracks
TocBytes == {0, 1, 2, 3, 16}

\* status bytes CdlNop may answer: motor on, motor on and playing
StatBytes == {2, 130}

\* tracks a caller may ask for
TrackArgs == {-1, 0, 1, 2, 3, 9, 10, 100}

\* src/src/cdda.c:139  ((t / 10) << 4) | (t % 10)
Bcd(t) == ((t \div 10) * 16) + (t % 10)

\* src/src/cdda.c:133  ((res[2] >> 4) * 10) + (res[2] & 0x0F)
FromBcd(b) == ((b \div 16) * 10) + (b % 16)

\* what GetTD answers for track t: the disc has one track per minute
TrackStart(t) == [minute |-> Bcd((t - 1) % 80), second |-> 2]

\* a static CdlLOC is all zero
NoLoc == [minute |-> 0, second |-> 0, sector |-> 0, track |-> 0]

\* what a read outside loc[] may deliver
GarbageLocs == {NoLoc, [minute |-> 255, second |-> 255, sector |-> 255, track |-> 255]}

\* src/src/cdda.c:138-150  the loop of CdGetToc over t = 1 .. lastTrack, t < 100
TocLoc(old, lastTrack) ==
    [t \in 0 .. (LOC_SIZE - 1) |->
        IF 1 <= t /\ t <= lastTrack
        THEN [minute |-> TrackStart(t).minute, second |-> TrackStart(t).second,
              sector |-> 0, track |-> Bcd(t)]
        ELSE old[t]]

\* the GetTD commands of that loop, for t from n up
RECURSIVE TocCmds(_, _)
TocCmds(n, lastTrack) ==
    IF n <= lastTrack /\ n < LOC_SIZE
    THEN <<(<<CdlGetTD, Bcd(n)>>)>> \o TocCmds(n + 1, lastTrack)
    ELSE <<>>

\* src/src/cdda.c:241-247  CdControl(CdlSetloc, setlocParam, 3); CdControl0(CdlPlay)
SetlocPlay(l) == << <<CdlSetloc, l.minute, l.second, l.sector>>, <<CdlPlay>> >>

\* (result[0] & CdlStatPlay) != 0
StatPlaying(b) == (b \div CdlStatPlay) % 2 = 1

\* loc[k] as the build reads it: the entry, or for k outside the array
\* whatever lies in memory there
LocRead(k) == IF k \in DOMAIN loc THEN {loc[k]} ELSE GarbageLocs

CddaFrame == UNCHANGED <<frameVars, pollVars, loadVars, padVars, gteVars, trigVars,
                         cubeVars, edgeVars, fieldVars>>

\* the guard with its lower limit at 0:  if (track < 0 || track >= ntoc)
playCDDATrack_fromZero(track, sent) ==
    IF track < 0 \/ track >= ntoc
    THEN /\ lastCmds' = sent
         /\ locIdx' = {}
         /\ UNCHANGED <<currentTrack, trackToLoop, loopMusic>>
    ELSE /\ \E l \in LocRead(track) : lastCmds' = sent \o SetlocPlay(l)
         /\ locIdx' = {track}
         /\ currentTrack' = track
         /\ trackToLoop' = track
         /\ loopMusic' = 1

\* src/src/cdda.c:231-252  playCDDATrack, after the commands in sent
playCDDATrack(track, sent) ==
    IF track < 1 \/ track >= ntoc
    THEN /\ lastCmds' = sent
         /\ locIdx' = {}
         /\ UNCHANGED <<currentTrack, trackToLoop, loopMusic>>
    ELSE /\ \E l \in LocRead(track) : lastCmds' = sent \o SetlocPlay(l)
         /\ locIdx' = {track}
         /\ currentTrack' = track
         /\ trackToLoop' = track
         /\ loopMusic' = 1

\* src/src/cdda.c:163-228  initCDDA, GetTN answering a last track in bytes
initCDDAFrom(bytes) ==
    /\ lastCall = "boot"
    /\ \E b \in bytes :
         /\ ntoc' = FromBcd(b)
         /\ locIdx' = {t \in 1 .. FromBcd(b) : t < LOC_SIZE} \cup {2}
         /\ loc' = TocLoc(loc, FromBcd(b))
         /\ lastCmds' = << <<CdlInit>>, <<CdlGetTN>> >> \o TocCmds(1, FromBcd(b))
                          \o << <<CdlSetmode, CdlModeRept + CdlModeDA>>, <<CdlDemute>> >>
                          \o SetlocPlay(TocLoc(loc, FromBcd(b))[2])
    /\ trackToLoop' = 2
    /\ loopMusic' = 1
    /\ currentTrack' = 2
    /\ lastCall' = "initCDDA"
    /\ playArgs' = <<>>
    /\ stopped' = FALSE
    /\ UNCHANGED <<loopWait, sawPlaying, misses>>
    /\ CddaFrame

initCDDA == initCDDAFrom(TocBytes)

\* a call of playCDDATrack from outside cdda.c with a track of args
PlayCDDATrackOf(args) ==
    /\ lastCall # "boot"
    /\ \E track \in args :
         /\ playCDDATrack(track, <<>>)
         /\ playArgs' = <<track>>
    /\ lastCall' = "playCDDATrack"
    /\ stopped' = IF loopMusic' = 1 THEN FALSE ELSE stopped
    /\ UNCHANGED <<ntoc, loopWait, loc, sawPlaying, misses>>
    /\ CddaFrame

PlayCDDATrack == PlayCDDATrackOf(TrackArgs)

\* src/src/cdda.c:254-259  stopCDDA
StopCDDA ==
    /\ lastCall # "boot"
    /\ lastCmds' = << <<CdlStop>> >>
    /\ loopMusic' = 0
    /\ lastCall' = "stopCDDA"
    /\ playArgs' = <<>>
    /\ locIdx' = {}
    /\ stopped' = TRUE
    /\ UNCHANGED <<ntoc, trackToLoop, loopWait, currentTrack, loc, sawPlaying, misses>>
    /\ CddaFrame

\* src/src/cdda.c:261-265  pauseCDDA
PauseCDDA ==
    /\ lastCall # "boot"
    /\ lastCmds' = << <<CdlPause>> >>
    /\ lastCall' = "pauseCDDA"
    /\ playArgs' = <<>>
    /\ locIdx' = {}
    /\ UNCHANGED <<ntoc, loopMusic, trackToLoop, loopWait, currentTrack, loc,
                   sawPlaying, stopped, misses>>
    /\ CddaFrame

\* the update without the test of loopMusic:  if (!isCDDAPlaying())
UpdateCDDA_always ==
    /\ lastCall # "boot"
    /\ lastCall' = "updateCDDA"
    /\ \E stat \in StatBytes :
         /\ sawPlaying' = StatPlaying(stat)
         /\ IF ~StatPlaying(stat)
            THEN /\ misses' = IF misses >= LoopFrames THEN 1 ELSE misses + 1
                 /\ IF loopWait + 1 >= LoopFrames
                    THEN /\ loopWait' = 0
                         /\ playArgs' = <<trackToLoop>>
                         /\ playCDDATrack(trackToLoop, << <<CdlNop>> >>)
                    ELSE /\ loopWait' = loopWait + 1
                         /\ playArgs' = <<>>
                         /\ locIdx' = {}
                         /\ lastCmds' = << <<CdlNop>> >>
                         /\ UNCHANGED <<currentTrack, trackToLoop, loopMusic>>
            ELSE /\ lastCmds' = << <<CdlNop>> >>
                 /\ playArgs' = <<>>
                 /\ locIdx' = {}
                 /\ misses' = IF misses >= LoopFrames THEN 0 ELSE misses
                 /\ UNCHANGED <<loopWait, currentTrack, trackToLoop, loopMusic>>
    /\ UNCHANGED <<ntoc, loc, stopped>>
    /\ CddaFrame

\* src/src/cdda.c:274-287  updateCDDA, with isCDDAPlaying (267-271)
UpdateCDDA ==
    /\ lastCall # "boot"
    /\ lastCall' = "updateCDDA"
    /\ IF loopMusic # 0
       THEN \E stat \in StatBytes :
              /\ sawPlaying' = StatPlaying(stat)
              /\ IF ~StatPlaying(stat)
                 THEN /\ misses' = IF misses >= LoopFrames THEN 1 ELSE misses + 1
                      /\ IF loopWait + 1 >= LoopFrames
                         THEN /\ loopWait' = 0
                              /\ playArgs' = <<trackToLoop>>
                              /\ playCDDATrack(trackToLoop, << <<CdlNop>> >>)
                         ELSE /\ loopWait' = loopWait + 1
                              /\ playArgs' = <<>>
                              /\ locIdx' = {}
                              /\ lastCmds' = << <<CdlNop>> >>
                              /\ UNCHANGED <<currentTrack, trackToLoop, loopMusic>>
                 ELSE /\ lastCmds' = << <<CdlNop>> >>
                      /\ playArgs' = <<>>
                      /\ locIdx' = {}
                      /\ misses' = IF misses >= LoopFrames THEN 0 ELSE misses
                      /\ UNCHANGED <<loopWait, currentTrack, trackToLoop, loopMusic>>
       ELSE /\ lastCmds' = <<>>
            /\ playArgs' = <<>>
            /\ locIdx' = {}
            /\ misses' = IF misses >= LoopFrames THEN 0 ELSE misses
            /\ UNCHANGED <<loopWait, currentTrack, trackToLoop, loopMusic, sawPlaying>>
    /\ UNCHANGED <<ntoc, loc, stopped>>
    /\ CddaFrame

\* src/src/cdda.c:39-46  the statics before initCDDA
CddaInit ==
    /\ build = "full" /\ FrameIdle /\ PollIdle /\ LoadIdle /\ PadIdle /\ GteIdle
    /\ TrigIdle /\ CubeIdle /\ EdgeIdle /\ FieldIdle
    /\ ntoc = 0
    /\ loopMusic = 0
    /\ trackToLoop = 2
    /\ loopWait = 0
    /\ currentTrack = 0
    /\ loc = [t \in 0 .. (LOC_SIZE - 1) |-> NoLoc]
    /\ lastCall = "boot"
    /\ lastCmds = <<>>
    /\ playArgs = <<>>
    /\ locIdx = {}
    /\ sawPlaying = FALSE
    /\ stopped = FALSE
    /\ misses = 0

CddaNext == initCDDA \/ PlayCDDATrack \/ StopCDDA \/ PauseCDDA \/ UpdateCDDA

CddaSpec == CddaInit /\ [][CddaNext]_vars

\* last-track bytes of any kind: none, 2, and 0x99, 0xA0, 0xFF, which decode
\* to 99, 100 and 165
WideTocBytes == {0, 2, 153, 160, 255}

\* tracks around the end of loc[] and around the largest ntoc
WideTrackArgs == {0, 2, 99, 100, 164, 165}

initCDDAWide == initCDDAFrom(WideTocBytes)

PlayCDDATrackWide == PlayCDDATrackOf(WideTrackArgs)

TocNext == initCDDAWide \/ PlayCDDATrackWide \/ StopCDDA \/ PauseCDDA \/ UpdateCDDA

TocSpec == CddaInit /\ [][TocNext]_vars

(* ================== a background shape of the full viewer ============= *)
\* The loop bodies of initStarfield, updateStarfield and of the drawing loop
\* touch only shapes[i]; the values of fastRand are inputs.  One entry of
\* shapes[] is followed.

\* src/src/main.c:72  #define CENTERX (SCREEN_WIDTH / 2)
CENTERX == SCREEN_WIDTH \div 2

\* fastRand() % 250, % 600, % 100 and % 3: the ends of each range
RandZ == {0, 1, 249}
RandX == {0, 599}
RandRespawn == {0, 99}
RandSpeed == {0, 2}

\* a / b of C for b > 0: the quotient is cut towards zero
CDiv(a, b) == IF a >= 0 THEN a \div b ELSE -((-a) \div b)

\* (int16_t) v
Int16(v) == ((v + 32768) % 65536) - 32768

\* what a division by zero may leave in its result
DivZeroResults == {0, -1}

\* src/src/main.c:136-139  getScreenX
getScreenX(worldX, worldZ) ==
    IF worldZ <= 0 THEN SCREEN_WIDTH + 100
    ELSE CDiv(worldX * (SCREEN_WIDTH \div 2), worldZ) + CENTERX

FieldFrame == UNCHANGED <<frameVars, pollVars, loadVars, padVars, gteVars, trigVars,
                          cubeVars, edgeVars, cddaVars>>

\* the depth without its offset:  shape->z = fastRand() % 250;
resetShape_nearZ(randomX, rz, rx, rs) ==
    LET z == Int16(rz)
    IN [x |-> IF randomX THEN Int16(rx - 150) ELSE Int16(z + 50 + rx),
        z |-> z,
        moveSpeed |-> Int16(2 + rs)]

\* src/src/main.c:142-160  resetShape; rz, rx, rs are the values of
\* fastRand() % 250, of fastRand() % 600 or % 100, and of fastRand() % 3
resetShape(randomX, rz, rx, rs) ==
    LET z == Int16(350 + rz)
    IN [x |-> IF randomX THEN Int16(rx - 150) ELSE Int16(z + 50 + rx),
        z |-> z,
        moveSpeed |-> Int16(2 + rs)]

\* src/src/main.c:174-181  initStarfield: resetShape(&shapes[i], true)
InitStarfield ==
    /\ fieldPc = "init"
    /\ \E rz \in RandZ, rx \in RandX, rs \in RandSpeed :
         /\ bgShape' = resetShape(TRUE, rz, rx, rs)
         /\ zAtReset' = resetShape(TRUE, rz, rx, rs).z
    /\ fieldPc' = "update"
    /\ UNCHANGED <<divZero, skipped>>
    /\ FieldFrame

\* src/src/main.c:190-202  updateStarfield, the body for shapes[i]
UpdateStarfield ==
    /\ fieldPc = "update"
    /\ LET moved == [bgShape EXCEPT !.x = Int16(bgShape.x - bgShape.moveSpeed)]
           screenX == getScreenX(moved.x, moved.z)
           sizes == IF moved.z = 0 THEN DivZeroResults
                    ELSE {CDiv(20 * (SCREEN_WIDTH \div 2), moved.z)}
       IN /\ divZero' = (divZero \/ moved.z = 0)
          /\ \E screenSize \in sizes :
               IF screenX < -screenSize
               THEN \E rz \in RandZ, rx \in RandRespawn, rs \in RandSpeed :
                      /\ bgShape' = resetShape(FALSE, rz, rx, rs)
                      /\ zAtReset' = resetShape(FALSE, rz, rx, rs).z
               ELSE /\ bgShape' = moved
                    /\ zAtReset' = zAtReset
    /\ fieldPc' = "draw"
    /\ UNCHANGED skipped
    /\ FieldFrame

\* src/src/main.c:789-793  the drawing loop: if (sh->z < 50) continue;
DrawShape ==
    /\ fieldPc = "draw"
    /\ skipped' = (skipped \/ bgShape.z < 50)
    /\ fieldPc' = "update"
    /\ UNCHANGED <<bgShape, zAtReset, divZero>>
    /\ FieldFrame

\* src/src/main.c:104  static Shape3D shapes[NUM_SHAPES];
FieldInit ==
    /\ build = "full" /\ FrameIdle /\ PollIdle /\ LoadIdle /\ PadIdle /\ GteIdle
    /\ TrigIdle /\ CubeIdle /\ EdgeIdle /\ CddaIdle
    /\ fieldPc = "init"
    /\ bgShape = NoShape
    /\ zAtReset = 0
    /\ divZero = FALSE
    /\ skipped = FALSE

FieldNext == InitStarfield \/ UpdateStarfield \/ DrawShape

FieldSpec == FieldInit /\ [][FieldNext]_vars

(* ========================== properties ================================ *)
\* positions at which the next CPU step clears, resets or allocates into chain
MutatingPcs == {"clear", "reset", "gte", "emit", "hud", "grad1", "grad2",
                "stars", "shapes", "bgfill", "drawarea"}
\* positions at which the chain of this iteration is complete
BuiltPcs == {"waitgp0", "waitvsync", "send"}
\* positions inside updateCDDA
AudioPcs == {"cdda", "cdsetloc", "cdplay"}
\* positions after clearOrderingTable of this iteration
AfterClearPcs == (MutatingPcs \ {"clear"}) \cup AudioPcs \cup BuiltPcs

Data(c) == {dmaChains[c].data[o] : o \in DOMAIN dmaChains[c].data}
OfKind(c, k) == {p \in Data(c) : p.kind = k}
InSeq(w) == {w[k] : k \in 1 .. Len(w)}

RECURSIVE SumLen(_)
SumLen(S) == IF S = {} THEN 0
             ELSE LET p == CHOOSE q \in S : TRUE IN p.len + SumLen(S \ {p})

\* C1: while the transfer started by sendLinkedList on a chain is in
\* progress the CPU is never at a point where it clears, resets or
\* allocates into that chain; in particular the transfer of the chain built
\* two frames earlier is over when the loop clears that chain again.
C1_NoWriteWhileInFlight ==
    (pc \in MutatingPcs /\ sub.busy) => sub.madr.chain # chain

C1_Witness ==
    /\ frames = 2 /\ pc = "emit" /\ sub.busy
    /\ sub.madr.chain = 1 - chain

\* C2: the chain selected by the first iteration is 0, every later
\* iteration selects the other chain than the one before; usingSecondFrame
\* flips in exactly the step that selects the chain and in no other step.
C2_Alternation ==
    [][ IF pc = "select" /\ pc' = "clear"
        THEN /\ chain' = (IF frames = 0 THEN 0 ELSE 1 - chain)
             /\ chain' = (IF usingSecondFrame THEN 1 ELSE 0)
             /\ usingSecondFrame' = ~usingSecondFrame
        ELSE /\ usingSecondFrame' = usingSecondFrame
             /\ chain' = chain ]_vars

C2_Witness == frames = 2 /\ pc = "clear" /\ chain = 0 /\ usingSecondFrame

\* C3: at every point of a frame after clearOrderingTable, the walk from
\* the start bucket visits exactly the packets allocated so far in the
\* frame, each once, and ends at the terminator.
C3_WalkVisitsAll ==
    pc \in AfterClearPcs =>
        LET w == ChainWalk(chain) IN
        /\ w.result = "end"
        /\ InSeq(w.visited) = Data(chain)
        /\ Len(w.visited) = Cardinality(Data(chain))

C3_Witness ==
    /\ pc = "send" /\ frames = 2
    /\ Cardinality(OfKind(chain, "face")) = MODEL_FACES
    /\ Cardinality(Data(chain)) > MODEL_FACES + 1

\* C4: the step that finishes the body of the face loop allocates exactly
\* one 7-word packet, into bucket zIndex, when MAC0 > 0 and
\* 0 <= zIndex < ORDERING_TABLE_SIZE, and leaves both chains untouched
\* otherwise; either way the loop goes on with the next face.
C4_FaceEmitsIffVisible ==
    [][ (pc = "emit" /\ pc' # "emit") =>
          /\ pc' = "gte" /\ i' = i + 1
          /\ IF nclip > 0 /\ 0 <= zIndex /\ zIndex < ORDERING_TABLE_SIZE
             THEN /\ \E p \in Data(chain)' :
                        /\ p \notin Data(chain)
                        /\ Data(chain)' = Data(chain) \cup {p}
                        /\ p.bucket = zIndex /\ p.len = 7 /\ p.kind = "face"
                        /\ dmaChains'[chain].orderingTable[zIndex] = PktAddr(chain, p.off)
                  /\ dmaChains'[1 - chain] = dmaChains[1 - chain]
             ELSE dmaChains' = dmaChains ]_vars

C4_Witness ==
    /\ pc = "gte" /\ i = MODEL_FACES
    /\ Cardinality(OfKind(chain, "face")) = 1

\* words of the auxiliary (non-face) packets of chain c
AuxWords(c) == dmaChains[c].nextPacket - 7 * Cardinality(OfKind(c, "face"))

\* C5 as stated: the auxiliary amount is a fixed number, the same in this
\* frame as in the frame before.
C5_FixedAuxWords ==
    (pc = "send" /\ frames = 2) => AuxWords(chain) = AuxWords(1 - chain)

\* C5 amended: when a frame is submitted the words consumed from its arena
\* are 7 per face packet plus the words of the auxiliary packets allocated
\* in that frame; that amount is the fixed 3 + 4 in the basic build, and in
\* the full build 6 + 6 + 4 plus 4 per HUD glyph, 3 per star on screen and
\* 4 per background triangle drawn.
C5_WordCount ==
    pc = "send" =>
        /\ dmaChains[chain].nextPacket = SumLen(Data(chain))
        /\ AuxWords(chain) = SumLen(Data(chain) \ OfKind(chain, "face"))
        /\ build = "basic" => AuxWords(chain) = 3 + 4
        /\ build = "full" =>
             AuxWords(chain) = 6 + 6 + 4
                 + GlyphWords * Cardinality(OfKind(chain, "text"))
                 + 3 * Cardinality(OfKind(chain, "star"))
                 + 4 * Cardinality(OfKind(chain, "shape"))

C5_Witness ==
    /\ pc = "send" /\ frames = 2 /\ build = "full"
    /\ AuxWords(chain) # AuxWords(1 - chain)
    /\ OfKind(chain, "face") # {}

\* C6: in the list handed to the GPU, every packet is reached, and a packet
\* of a farther bucket is reached before every packet of a nearer bucket.
C6_BackToFront ==
    sub.busy =>
        LET c == sub.madr.chain
            w == Walk(sub.madr, Fuel(c), <<>>).visited
        IN  /\ Data(c) \subseteq InSeq(w)
            /\ \A k1, k2 \in 1 .. Len(w) :
                  w[k1].bucket > w[k2].bucket => k1 < k2

C6_Witness ==
    /\ sub.busy /\ build = "full"
    /\ OfKind(sub.madr.chain, "face") # {}
    /\ OfKind(sub.madr.chain, "star") # {}
    /\ OfKind(sub.madr.chain, "shape") # {}

\* a step that allocates exactly one packet p into chain c
AllocatesOne(c, p) ==
    /\ p \in Data(c)' /\ p \notin Data(c)
    /\ Data(c)' = Data(c) \cup {p}

\* C7: an allocation links the new packet to the former head of its
\* bucket, makes the new packet the head and leaves the other buckets
\* alone; so within a bucket a packet allocated later is walked earlier.
C7_InsertAtHead ==
    /\ [][ \A c \in {0, 1} : \A p \in Data(c)' :
             AllocatesOne(c, p) =>
               /\ p.link = dmaChains[c].orderingTable[p.bucket]
               /\ dmaChains'[c].orderingTable[p.bucket] = PktAddr(c, p.off)
               /\ \A b \in Buckets \ {p.bucket} :
                     dmaChains'[c].orderingTable[b] = dmaChains[c].orderingTable[b]
         ]_vars
    /\ [](pc \in AfterClearPcs =>
            LET w == ChainWalk(chain).visited IN
            /\ Data(chain) \subseteq InSeq(w)
            /\ \A k1, k2 \in 1 .. Len(w) :
                  (w[k1].bucket = w[k2].bucket /\ w[k1].off > w[k2].off) => k1 < k2)

C7_Witness ==
    /\ pc = "waitgp0"
    /\ Cardinality(OfKind(chain, "face")) = 2
    /\ \E p \in OfKind(chain, "drawarea") : p.link.kind = "pkt"

\* C8: right after the reset of an iteration the cursor is at the arena
\* base and the walk from the start bucket meets no packet and ends at the
\* terminator; in the chain of a built frame every packet lies below the
\* cursor and the walk never leaves the packets of that frame.
C8_FreshChainEachFrame ==
    /\ (pc = "gte" /\ i = 0) =>
          /\ dmaChains[chain].nextPacket = 0
          /\ ChainWalk(chain) = [visited |-> <<>>, result |-> "end"]
    /\ pc \in BuiltPcs =>
          /\ ChainWalk(chain).result # "leftover"
          /\ InSeq(ChainWalk(chain).visited) \subseteq Data(chain)
          /\ \A p \in Data(chain) : p.off >= 0 /\ p.off + p.len <= dmaChains[chain].nextPacket

C8_Witness ==
    /\ frames = 2 /\ pc = "gte" /\ i = 0 /\ chain = 0
    /\ Data(1) # {}

\* C9: the three synchronisation calls of an iteration are made in the
\* order waitForGP0Ready, waitForVSync, sendLinkedList, once each, after the
\* drawing-area packet (the last one) has been allocated; a transfer starts
\* only in the send step, only when the previous transfer is over, and at
\* the farthest bucket of the chain built in this iteration.
C9_SubmitOrder ==
    /\ [](/\ (pc = "select" /\ frames > 0) => log = <<"gp0", "vsync", "send">>
          /\ pc = "send" => log = <<"gp0", "vsync">>
          /\ pc = "waitvsync" => log = <<"gp0">>
          /\ pc \in MutatingPcs \cup {"waitgp0"} => log = <<>>
          /\ pc \in BuiltPcs => OfKind(chain, "drawarea") # {})
    /\ [][ (sub' # sub /\ sub'.busy) =>
              /\ pc = "send" /\ pc' = "select"
              /\ ~sub.busy
              /\ sub'.madr = OTAddr(chain, ORDERING_TABLE_SIZE - 1)
              /\ dmaChains' = dmaChains ]_vars

C9_Witness ==
    /\ pc = "select" /\ frames = 2 /\ sub.busy
    /\ sub.madr = OTAddr(chain, ORDERING_TABLE_SIZE - 1)

\* C10 as stated: when the display has just been flipped at the top of the
\* loop, the transfer submitted before is over.
C10_DoneBeforeFlip == pc = "clear" => ~sub.busy

\* C10 amended: the flip at the top of the next iteration is not held back
\* and may precede the end of the transfer; from that flip on, the buffer
\* on display is never the one an unfinished transfer draws into.
C10_FlipAwayFromDrawnBuffer ==
    (sub.busy /\ pc # "select") => drawTarget[sub.madr.chain] # dispX

C10_Witness ==
    /\ pc = "clear" /\ frames = 2 /\ sub.busy
    /\ drawTarget[sub.madr.chain] = SCREEN_WIDTH /\ dispX = 0

\* kinds of the auxiliary packets of a frame
AuxKinds == {"bgfill", "grad", "text", "star", "drawarea"}

\* C11 as stated: every auxiliary packet, the stars included, is allocated
\* into the farthest bucket.
C11_AllAuxFarthest ==
    \A c \in {0, 1} : \A p \in Data(c) :
        p.kind \in AuxKinds => p.bucket = ORDERING_TABLE_SIZE - 1

\* C11 amended: background fill, gradient, overlay text and the
\* drawing-area packet are allocated into bucket ORDERING_TABLE_SIZE - 1 and
\* the stars into bucket ORDERING_TABLE_SIZE - 2; in the list of a built
\* frame every auxiliary packet is reached before every face packet of a
\* bucket nearer than its own.
C11_AuxBuckets ==
    /\ \A c \in {0, 1} : \A p \in Data(c) :
          /\ p.kind \in AuxKinds \ {"star"} => p.bucket = ORDERING_TABLE_SIZE - 1
          /\ p.kind = "star" => p.bucket = ORDERING_TABLE_SIZE - 2
    /\ pc \in BuiltPcs =>
          LET w == ChainWalk(chain).visited IN
          /\ Data(chain) \subseteq InSeq(w)
          /\ \A k1, k2 \in 1 .. Len(w) :
                (/\ w[k1].kind \in AuxKinds /\ w[k2].kind = "face"
                 /\ w[k2].bucket < w[k1].bucket) => k1 < k2

C11_Witness ==
    /\ pc = "send" /\ build = "full"
    /\ OfKind(chain, "star") # {} /\ OfKind(chain, "text") # {}
    /\ \E p \in OfKind(chain, "face") : p.bucket < ORDERING_TABLE_SIZE - 2

\* C12: under the fairness of LiveSpec (the CPU runs, the GPU finishes a
\* transfer, vertical sync occurs) every iteration that has begun building
\* a chain submits that chain, and the iteration after it builds the other
\* chain.
C12_EveryFrameSubmitted ==
    \A c \in {0, 1} :
        /\ (pc = "clear" /\ chain = c)
              ~> (pc = "select" /\ chain = c /\ log = <<"gp0", "vsync", "send">>)
        /\ (pc = "select" /\ chain = c /\ frames > 0)
              ~> (pc = "clear" /\ chain = 1 - c)

\* C13: no wait goes round its loop more often than the largest countdown
\* allows, whether or not the hardware ever signals, and every wait that
\* ran out of its countdown has returned to its caller.
C13_BoundedSpins ==
    /\ spins <= MaxTimeout
    /\ ret = "timeout" => poll = "idle"

\* C14: once loadModel has failed, main is at the check of its result or
\* has returned: no audio subsystem is initialised and no frame is built
\* or submitted, then or later; main returns only after the failure of
\* loadModel and after reporting it, and does nothing after returning.
C14_HaltOnLoadFailure ==
    /\ [](loaded = "false" =>
            /\ startPc \in {"check", "returned"}
            /\ audio = {} /\ built = 0)
    /\ [](startPc = "returned" => (reported /\ loaded = "false"))
    /\ [][startPc = "returned" => UNCHANGED loadVars]_vars

C14_Witness ==
    /\ startPc = "returned" /\ reported
    /\ Len(modelData.bytes) = HeaderSize - 1

\* C15: loadModel returns false exactly when the model pointer is null, the
\* data pointer is null or size < 8; when it returns true the three counts
\* are the first three little-endian 16-bit fields of the buffer, and a
\* buffer of exactly 8 zero bytes loads with all three counts 0.
C15_LoadModelResult ==
    startPc = "called" =>
        LET d == modelData.bytes IN
        /\ loaded = "false" <=> (~modelArg \/ modelData.null \/ Len(d) < 8)
        /\ loaded = "true" =>
              /\ model.numVertices = d[1] + 256 * d[2]
              /\ model.numUVs = d[3] + 256 * d[4]
              /\ model.numFaces = d[5] + 256 * d[6]
        /\ (modelArg /\ ~modelData.null /\ d = [k \in 1 .. 8 |-> 0]) =>
              /\ loaded = "true"
              /\ model.numVertices = 0 /\ model.numUVs = 0 /\ model.numFaces = 0

C15_Witness ==
    /\ startPc = "called" /\ loaded = "true"
    /\ modelData = Buffer([k \in 1 .. 8 |-> 0])

\* C16: every poll starts from the neutral state, and a poll in which the
\* address byte was not acknowledged, or an acknowledge or a byte timed out
\* later in the exchange, returns the neutral state.
C16_NeutralOnNoInput ==
    /\ padPc \in {"address", "first", "read"} => pad = Neutral
    /\ (padPc = "done" /\ missed) => pad = Neutral

\* C17: rotateCurrentMatrix applies its axes in the order yaw, pitch, roll, and
\* each step multiplies its elementary matrix into the matrix the step before
\* left: the result is ((before * Yaw) * Pitch) * Roll
C17_YawPitchRollOrder ==
    calls # <<>> =>
        LET a == calls[Len(calls)]
            afterYaw   == Step(before, YawVectors(isin(a[1]), icos(a[1])))
            afterPitch == Step(afterYaw, PitchVectors(isin(a[2]), icos(a[2])))
            afterRoll  == Step(afterPitch, RollVectors(isin(a[3]), icos(a[3])))
        IN  RT = afterRoll

\* a call with three non-zero angles on a matrix that is not the identity
C17_Witness ==
    /\ calls # <<>>
    /\ \A k \in 1 .. 3 : calls[Len(calls)][k] # 0
    /\ before \notin {Identity, NoMatrix}
    /\ RT # before

\* C18: the rotation composer is not commutative: from the identity, pitch 512
\* followed by yaw 1024 leaves a rotation matrix different from the one yaw
\* 1024 followed by pitch 512 leaves, and some vertex projects to different
\* screen coordinates under the two
C18_NonCommutative ==
    (start = Identity /\ calls = <<<<0, 512, 0>>, <<1024, 0, 0>>>>) =>
        LET yawFirst == rotateCurrentMatrix(Identity, 1024, 512, 0)
        IN  /\ RT # yawFirst
            /\ \E v \in Vertices : Project(RT, TR, v) # Project(yawFirst, TR, v)

\* pitch 512 and then yaw 1024 have been applied to the identity
C18_Witness ==
    /\ start = Identity
    /\ calls = <<<<0, 512, 0>>, <<1024, 0, 0>>>>
    /\ RT # Identity

\* C19: skipping an axis whose angle is 0 changes nothing: the matrix a call
\* leaves when an angle is 0 is the matrix it would leave had the step for that
\* axis multiplied by the elementary matrix built with isin(0) and icos(0),
\* and a call with three zero angles leaves the rotation matrix as it was
C19_ZeroAngleSkip ==
    calls # <<>> =>
        LET a      == calls[Len(calls)]
            Yaw0   == YawVectors(isin(0), icos(0))
            Pitch0 == PitchVectors(isin(0), icos(0))
            Roll0  == RollVectors(isin(0), icos(0))
        IN  /\ a[1] = 0 =>
                  RT = rotateCurrentMatrix(Step(before, Yaw0), 0, a[2], a[3])
            /\ a[2] = 0 =>
                  RT = rotateCurrentMatrix(
                          Step(rotateCurrentMatrix(before, a[1], 0, 0), Pitch0),
                          0, 0, a[3])
            /\ a[3] = 0 =>
                  RT = Step(rotateCurrentMatrix(before, a[1], a[2], 0), Roll0)
            /\ a = <<0, 0, 0>> => RT = before

\* a call that skips only the pitch step, followed by a call that skips all
\* three, on register contents with extreme entries
C19_Witness ==
    /\ Len(calls) = 2
    /\ calls[1] = <<512, 0, 1024>>
    /\ calls[2] = <<0, 0, 0>>
    /\ start \notin {Identity, NoMatrix}
    /\ before # start
    /\ RT = before

\* C20: when the face loop starts, the translation is (0, 0, 300) and the
\* rotation matrix is the identity rotated by this frame's yaw, pitch and roll,
\* whatever the registers held when the frame began
C20_RebuiltEachFrame ==
    gtePc = "faces" =>
        /\ TR = <<0, 0, 300>>
        /\ RT = rotateCurrentMatrix(Identity, rotation[1], rotation[2], rotation[3])

\* a frame of the full build that began with the matrix a background shape
\* left in the registers and whose own rotation is not zero
C20_Witness ==
    /\ gtePc = "faces"
    /\ build = "full"
    /\ before \notin StartMatrices
    /\ rotation = <<512, -32, 0>>
    /\ RT # before

\* C21: isin(0) = 0, isin of a quarter turn is 4096, and isin has the period
\* of a full turn of 4096 angle units, in 32-bit two's complement
C21_IsinAnchorsAndPeriod ==
    trigPc = "done" =>
        /\ arg = 0 => sine = 0
        /\ arg = 1024 => sine = 4096
        /\ FullTurn = 4096
        /\ shifted = sine

\* isin was called with an angle whose sine is negative and for which adding
\* a full turn wraps round the 32-bit range
C21_Witness ==
    /\ trigPc = "done"
    /\ arg = 2147483647
    /\ sine < 0
    /\ shifted = sine

\* C22: for every angle of one full turn (and every other angle called with)
\* the value isin returns lies in [-4096, 4096]
C22_IsinRange ==
    trigPc = "done" => sine >= -ONE /\ sine <= ONE /\ ONE = 4096

\* isin returned the lowest value of the range for an angle inside the turn
C22_Witness ==
    /\ trigPc = "done"
    /\ arg \in 0 .. (FullTurn - 1)
    /\ sine = -4096

\* C23: for a cube model (8 vertices, 12 triangles) centred at depth 300 with
\* the identity rotation, exactly 6 faces pass the backface culling of a frame
C23_SixFacesPass ==
    cubePc = "counted" => passed = 6

\* C23, amended: exactly 2 faces pass, the two triangles of the side of the
\* cube nearest the camera
C23_TwoFacesPass ==
    /\ cubePc = "counted" => passed = 2
    /\ cubePc = "faces" =>
          passed = Cardinality({f \in 1 .. face : f \in {9, 10}})

\* the loop has run over the 12 faces of a cube of half edge 32
C23_Witness ==
    /\ cubePc = "counted"
    /\ half = 32
    /\ face = 12
    /\ passed = 2

\* positions after the cursor reset of this iteration
AfterResetPcs == AfterClearPcs \ {"reset"}

BgKinds == {"bgfill", "grad"}

\* C25: in the chain of a built frame the drawing-area packet is the first
\* packet of the walk from the start bucket, the background packets (one
\* fill, or the two gradient triangles) follow it directly, and every other
\* packet comes after them; the drawing-area packet is the last packet
\* allocated into the farthest bucket
C25_DrawAreaFirst ==
    pc \in BuiltPcs =>
        LET w   == ChainWalk(chain).visited
            nbg == IF build = "basic" THEN 1 ELSE 2
        IN  /\ Len(w) >= 1 + nbg
            /\ w[1].kind = "drawarea"
            /\ \A k \in 2 .. (1 + nbg) : w[k].kind \in BgKinds
            /\ \A k \in (2 + nbg) .. Len(w) : w[k].kind \notin BgKinds \cup {"drawarea"}
            /\ w[1].bucket = ORDERING_TABLE_SIZE - 1
            /\ \A p \in Data(chain) :
                  p.bucket = ORDERING_TABLE_SIZE - 1 => p.off <= w[1].off

\* a built frame of the full build with a face in the farthest bucket, HUD
\* text, a star and a background triangle
C25_Witness ==
    /\ pc = "send" /\ build = "full"
    /\ \E p \in OfKind(chain, "face") : p.bucket = ORDERING_TABLE_SIZE - 1
    /\ OfKind(chain, "star") # {} /\ OfKind(chain, "shape") # {}
    /\ OfKind(chain, "text") # {}

\* in the walk w every packet of a kind in K1 comes before every packet of
\* a kind in K2
KindsBefore(w, K1, K2) ==
    \A k1, k2 \in 1 .. Len(w) :
        (w[k1].kind \in K1 /\ w[k2].kind \in K2) => k1 < k2

\* every background-shape packet of the walk lies in a bucket of
\* [ORDERING_TABLE_SIZE/2, ORDERING_TABLE_SIZE-3]
ShapesInRange(w) ==
    \A k \in 1 .. Len(w) :
        w[k].kind = "shape" =>
            /\ w[k].bucket >= ORDERING_TABLE_SIZE \div 2
            /\ w[k].bucket <= ORDERING_TABLE_SIZE - 3

C27_XPressEdge ==
    /\ edgePc = "fade" =>
          /\ fired <=> (HasX(padButtons) /\ ~wasX)
          /\ sampled <=> (fired /\ spuSoundAddr # 0)
          /\ fired => bgFlash = 255
    /\ (edgePc \in {"fade", "poll"} /\ held >= 1) => firedInHold = 1

\* X has been down for at least three polls in a row, with other buttons
\* changing meanwhile, and a sound was uploaded
C27_Witness ==
    /\ edgePc = "fade"
    /\ held = 3
    /\ padButtons = 65535 /\ wasX /\ ~fired
    /\ firedInHold = 1
    /\ spuSoundAddr # 0
    /\ bgFlash < 243 /\ bgFlash > 0

\* C28: with looping on, the update that sees the drive idle for the fifth
\* time puts the wait counter back to 0 and sends SetLoc and Play for
\* trackToLoop to the drive
C28_RestartAfterFive ==
    (lastCall = "updateCDDA" /\ misses = LoopFrames) =>
        /\ loopWait = 0
        /\ lastCmds = << <<CdlNop>> >> \o SetlocPlay(loc[trackToLoop])

\* some command of the sequence is SetLoc or Play
SendsPlay(cmds) == \E k \in 1 .. Len(cmds) : cmds[k][1] \in {CdlSetloc, CdlPlay}

\* C29: a call playCDDATrack(track), made from outside or by updateCDDA,
\* sends SetLoc and Play for that track and sets currentTrack, trackToLoop
\* and loopMusic when 1 <= track < ntoc; for any other track it sends no
\* command and leaves the three unchanged
C29_PlayOnlyValidTrack ==
    [][playArgs' # <<>> =>
         IF 1 <= playArgs'[1] /\ playArgs'[1] < ntoc
         THEN /\ Len(lastCmds') >= 2
              /\ SubSeq(lastCmds', Len(lastCmds') - 1, Len(lastCmds'))
                    = SetlocPlay(loc[playArgs'[1]])
              /\ currentTrack' = playArgs'[1]
              /\ trackToLoop' = playArgs'[1]
              /\ loopMusic' = 1
         ELSE /\ ~SendsPlay(lastCmds')
              /\ UNCHANGED <<currentTrack, trackToLoop, loopMusic>>]_vars

\* track 0 was asked for after track 1 had been started, with a table of
\* contents of three tracks: nothing was sent and track 1 stays current
C29_Witness ==
    /\ lastCall = "playCDDATrack"
    /\ playArgs = <<0>>
    /\ ntoc = 3
    /\ lastCmds = <<>>
    /\ currentTrack = 1
    /\ loopMusic = 1

\* C30: once stopCDDA has returned, updateCDDA sends nothing to the drive and
\* loopMusic stays 0 until playCDDATrack or initCDDA sets it; an update sends
\* SetLoc and Play only if loopMusic was set when it was called
C30_StoppedStaysStopped ==
    /\ [](stopped =>
            /\ loopMusic = 0
            /\ lastCall = "updateCDDA" => (lastCmds = <<>> /\ playArgs = <<>>))
    /\ [][(lastCall' = "updateCDDA" /\ SendsPlay(lastCmds')) => loopMusic # 0]_vars

\* an update after stopCDDA, on a disc where track 2 could be played and
\* with four idle sightings counted before the stop
C30_Witness ==
    /\ stopped
    /\ lastCall = "updateCDDA"
    /\ ntoc = 3
    /\ trackToLoop = 2
    /\ loopWait = 4

\* C31: every index at which a call reads or writes loc[] is in 0 .. 99
C31_LocIndexInRange == locIdx \subseteq 0 .. (LOC_SIZE - 1)

\* C32: bgFlash is always in 0 .. 255; a press edge sets it to 255; every
\* frame's fade takes 12 off a positive level, stopping at 0, so that k fades
\* after the press the level is 255 - 12k, and from the 22nd fade on it is 0
\* until the next press
C32_FlashFades ==
    /\ bgFlash \in 0 .. 255
    /\ (edgePc = "fade" /\ fired) => (bgFlash = 255 /\ sincePress = 0)
    /\ bgFlash = IF sincePress >= 22 THEN 0 ELSE 255 - (12 * sincePress)

\* 22 fades after a press the level has just come down from 3 to 0
C32_Witness ==
    /\ edgePc = "poll"
    /\ sincePress = 22
    /\ bgFlash = 0
    /\ spuSoundAddr # 0
    /\ held = 0

\* C33: from initStarfield on the shape's z is in 350 .. 599 and is the z its
\* latest resetShape gave it; no division of updateStarfield or getScreenX
\* was by zero and the drawing loop never skipped the shape for z < 50
C33_ShapeDepthRange ==
    fieldPc \in {"update", "draw"} =>
        /\ bgShape.z \in 350 .. 599
        /\ bgShape.z = zAtReset
        /\ ~divZero
        /\ ~skipped

\* a shape at the far end of the range that has moved left of the camera
\* axis and is about to be drawn
C33_Witness ==
    /\ fieldPc = "draw"
    /\ bgShape.z = 599
    /\ bgShape.x < -600
    /\ ~skipped

\* C34: when pollController has returned, by the early return after the
\* address byte, by goto done after the first reply byte or after the whole
\* exchange, SIO_CTRL_DTR is cleared; it is set from the address byte until
\* the return
C34_DtrReleased ==
    /\ padPc = "done" => ~dtr
    /\ padPc \in {"address", "first", "read", "parse", "release"} => dtr

\* the return by goto done: the first reply byte came, its acknowledge did not
C34_Witness ==
    /\ padPc = "done"
    /\ response[1] \in TypeBytes
    /\ responseLen = 0
    /\ missed
    /\ ~dtr

\* C35: for every angle x, isin(x + 2048) = -isin(x) and isin(-x) = -isin(x),
\* the sum and the negation taken in 32-bit two's complement
C35_IsinAntisymmetric ==
    trigPc = "done" =>
        /\ 2 * QuarterTurn = 2048
        /\ halfTurned = -sine
        /\ negated = -sine

\* an angle in the second half of the turn whose sine is the lowest value
C35_Witness ==
    /\ trigPc = "done"
    /\ arg = 3 * QuarterTurn
    /\ sine = -ONE
    /\ halfTurned = ONE
    /\ negated = ONE

\* C36: when loadModel has returned true, the vertex, UV and face tables of
\* numVertices, numUVs and numFaces entries lie inside the size bytes of the
\* buffer, the UV and the face table start at multiples of 4, and the three
\* tables do not overlap
C36_TablesInsideBuffer ==
    (startPc = "called" /\ loaded = "true") =>
        LET size == Len(modelData.bytes)
            vertexEnd == model.vertices + (model.numVertices * VectorBytes)
            uvEnd == model.uvs + (model.numUVs * UVBytes)
            faceEnd == model.faces + (model.numFaces * FaceBytes)
        IN  /\ vertexEnd <= size /\ uvEnd <= size /\ faceEnd <= size
            /\ model.uvs % 4 = 0 /\ model.faces % 4 = 0
            /\ vertexEnd <= model.uvs /\ uvEnd <= model.faces

\* C37: a call of loadModel that returns false leaves every field of *model
\* as it was before the call
C37_FailureWritesNothing ==
    [][loaded' = "false" => model' = model]_vars

\* loadModel has refused a buffer one byte short of the header and the
\* structure still holds what an earlier call put there
C37_Witness ==
    /\ startPc = "called"
    /\ loaded = "false"
    /\ modelArg /\ ~modelData.null
    /\ Len(modelData.bytes) = HeaderSize - 1
    /\ model = UsedModel

====
